---- MODULE Spec2Model ----
(***************************************************************************)
(* Telenovela Studio backend: the per-entity state machines                *)
(* (app/models/mixins.py, app/models/models.py), the project step gate     *)
(* (Project.can_advance_to) and the API handlers that drive them           *)
(* (app/api/*.py), over the SQLAlchemy session of app/database/session.py. *)
(***************************************************************************)
EXTENDS Integers, Sequences, FiniteSets, TLC

VARIABLES
    sm,     \* one stateful entity exercised directly: [kind, state, path, error]
    db,     \* the committed rows of the one project
    reqs,   \* the generate_episodes requests in flight, each with its session
    resp    \* the outcome of the last API request

vars == <<sm, db, reqs, resp>>

(***************************************************************************)
(* State enums (models.py:29-59)                                           *)
(***************************************************************************)
IdeaState == {"draft", "approved", "rejected"}
StructureState == {"draft", "modified", "approved"}
GenerationState == {"pending", "generating", "generated", "approved"}
MediaState == {"pending", "generating", "generated", "approved", "rejected"}
PromptState == {"pending", "generated", "approved"}

StructureKinds == {"Character", "Location", "EpisodeSummary"}
MediaKinds == {"CharacterRef", "LocationRef", "GeneratedImage", "Thumbnail", "GeneratedVideo"}
PromptKinds == {"ImagePrompt", "VideoPrompt"}
EntityKinds == {"Idea", "Episode"} \cup StructureKinds \cup MediaKinds \cup PromptKinds

\* The state enum of the `state` column of each model class.
StatesOf(kind) ==
    IF kind = "Idea" THEN IdeaState
    ELSE IF kind \in StructureKinds THEN StructureState
    ELSE IF kind = "Episode" THEN GenerationState
    ELSE IF kind \in MediaKinds THEN MediaState
    ELSE PromptState

(***************************************************************************)
(* VALID_TRANSITIONS of each model class                                   *)
(***************************************************************************)
IdeaTransitions(current) ==
    IF current = "draft" THEN {"approved", "rejected"} ELSE {}

StructureTransitions(current) ==
    IF current = "draft" THEN {"modified", "approved"}
    ELSE IF current = "modified" THEN {"approved"}
    ELSE IF current = "approved" THEN {"modified"}
    ELSE {}

EpisodeTransitions(current) ==
    IF current = "pending" THEN {"generating"}
    ELSE IF current = "generating" THEN {"generated", "pending"}
    ELSE IF current = "generated" THEN {"approved"}
    ELSE IF current = "approved" THEN {"generated"}
    ELSE {}

MediaTransitions(current) ==
    IF current = "pending" THEN {"generating"}
    ELSE IF current = "generating" THEN {"generated", "pending"}
    ELSE IF current = "generated" THEN {"approved", "rejected"}
    ELSE IF current = "approved" THEN {"rejected"}
    ELSE IF current = "rejected" THEN {"pending"}
    ELSE {}

PromptTransitions(current) ==
    IF current = "pending" THEN {"generated"}
    ELSE IF current = "generated" THEN {"approved"}
    ELSE IF current = "approved" THEN {"generated"}
    ELSE {}

\* self.VALID_TRANSITIONS.get(current, set()) for an object of class `kind`
VALID_TRANSITIONS(kind, current) ==
    IF kind = "Idea" THEN IdeaTransitions(current)
    ELSE IF kind \in StructureKinds THEN StructureTransitions(current)
    ELSE IF kind = "Episode" THEN EpisodeTransitions(current)
    ELSE IF kind \in MediaKinds THEN MediaTransitions(current)
    ELSE IF kind \in PromptKinds THEN PromptTransitions(current)
    ELSE {}

(***************************************************************************)
(* StateMachineMixin (mixins.py)                                           *)
(***************************************************************************)
NoError == [type |-> "none"]

InvalidTransitionError(entity_type, current_state, target_state) ==
    [type |-> "InvalidTransitionError", entity_type |-> entity_type,
     current_state |-> current_state, target_state |-> target_state]

\* An AttributeError: the method called is not defined on the class.
AttributeError(entity_type, name) ==
    [type |-> "AttributeError", entity_type |-> entity_type, name |-> name]

\* transition_to as changed by a bug that skips the membership test.
transition_to_Unchecked(kind, current, new_state) ==
    [state |-> new_state, error |-> NoError]

\* transition_to as changed by a bug that assigns before it validates.
transition_to_AssignFirst(kind, current, new_state) ==
    IF new_state \notin VALID_TRANSITIONS(kind, current)
    THEN [state |-> new_state, error |-> InvalidTransitionError(kind, current, new_state)]
    ELSE [state |-> new_state, error |-> NoError]

\* StateMachineMixin.transition_to: the state after the call and the error raised.
transition_to(kind, current, new_state) ==
    IF new_state \notin VALID_TRANSITIONS(kind, current)
    THEN [state |-> current, error |-> InvalidTransitionError(kind, current, new_state)]
    ELSE [state |-> new_state, error |-> NoError]

can_transition_to(kind, current, new_state) ==
    new_state \in VALID_TRANSITIONS(kind, current)

(***************************************************************************)
(* Values shared by the specifications                                     *)
(***************************************************************************)
NoRow == [absent |-> TRUE]
None == "None"
Paths == {"/outputs/a.png"}
IdleDb == [absent |-> TRUE]
NoReqs == <<>>
\* A response that carries no StepProgress body.
NoProgress == [absent |-> TRUE]
NoResp == [status |-> 0, moves |-> {}, served |-> 0, progress |-> NoProgress, advanced |-> 0]

(***************************************************************************)
(* Helpers on sequences                                                    *)
(***************************************************************************)
Range(seq) == {seq[i] : i \in DOMAIN seq}
Min(a, b) == IF a < b THEN a ELSE b

RECURSIVE SelectNums(_, _)
\* [n for n in nums if n not in excluded], order kept
SelectNums(nums, excluded) ==
    IF nums = <<>> THEN <<>>
    ELSE IF Head(nums) \in excluded THEN SelectNums(Tail(nums), excluded)
    ELSE <<Head(nums)>> \o SelectNums(Tail(nums), excluded)

\* The index of the first row of `rows` with this episode_number, 0 if none:
\* db.query(Episode).filter(... episode_number == n).first()
FirstWithNumber(rows, n) ==
    IF \E i \in DOMAIN rows : rows[i].episode_number = n
    THEN CHOOSE i \in DOMAIN rows :
            /\ rows[i].episode_number = n
            /\ \A j \in DOMAIN rows : rows[j].episode_number = n => i <= j
    ELSE 0

(***************************************************************************)
(* Episode (models.py:320-354) and its lifecycle methods                   *)
(***************************************************************************)
NoContent == 0
\* script_data.get("episodeNumber", script_data.get("episode_number")) is None
NoNumber == 0

\* Episode(project_id, episode_number, state=PENDING): no title, no scenes
NewEpisode(id, episode_number) ==
    [id |-> id, episode_number |-> episode_number, state |-> "pending",
     content |-> NoContent, scenes |-> <<>>]

\* Scene(...) as created from a script: no prompts yet
NewScene == [image_prompts |-> <<>>, video_prompts |-> <<>>]

Episode_mark_generating(state) == transition_to("Episode", state, "generating")
Episode_mark_generated(state) == transition_to("Episode", state, "generated")
Episode_approve(state) == transition_to("Episode", state, "approved")
Episode_unapprove(state) == transition_to("Episode", state, "generated")

\* class Episode defines mark_generating, mark_generated, approve and unapprove
\* only: episode.reset_for_regen() finds no such attribute on the class, its
\* mixin or its base, and raises AttributeError with the state untouched.
Episode_reset_for_regen(state) ==
    [state |-> state, error |-> AttributeError("Episode", "reset_for_regen")]

(***************************************************************************)
(* Project (models.py:66-167): the rows of one project                     *)
(***************************************************************************)
NewProject ==
    [current_step |-> 1, title |-> None, setting |-> None,
     ideas |-> <<>>, characters |-> <<>>, locations |-> <<>>,
     episode_summaries |-> <<>>, episodes |-> <<>>, thumbnails |-> <<>>]

HTTPException(status_code) == [type |-> "HTTPException", status_code |-> status_code]

(***************************************************************************)
(* generate_episodes (episodes.py:56-288) over its own session.            *)
(* A session (session.py:24, autocommit=False, autoflush=False) holds the  *)
(* objects it loaded or added; flush() sends them to the open transaction, *)
(* commit() makes the transaction's writes the committed rows, close()     *)
(* without commit discards them.                                           *)
(***************************************************************************)
AI_BATCH_SIZE == 3

\* seq[:n] as Python slices it
PySlice(seq, n) ==
    IF n >= 0 THEN SubSeq(seq, 1, Min(n, Len(seq)))
    ELSE SubSeq(seq, 1, IF Len(seq) + n > 0 THEN Len(seq) + n ELSE 0)

SummaryNumbers(p) ==
    SortSeq([i \in DOMAIN p.episode_summaries |-> p.episode_summaries[i].episode_number],
            LAMBDA a, b : a < b)

\* The selection without done_numbers: every summary is taken again.
SummariesToGenerate_All(p, batch_size) == PySlice(SummaryNumbers(p), batch_size)

\* lines 80-85: done_numbers and summaries_to_generate
SummariesToGenerate(p, batch_size) ==
    LET done_numbers == {p.episodes[i].episode_number :
                           i \in {j \in DOMAIN p.episodes :
                                    p.episodes[j].state \notin {"pending", "generating"}}}
    IN PySlice(SelectNums(SummaryNumbers(p), done_numbers), batch_size)

\* lines 70-75: the prerequisite checks
StructureApproved(p) ==
    /\ \A i \in DOMAIN p.characters : p.characters[i].state = "approved"
    /\ \A i \in DOMAIN p.locations : p.locations[i].state = "approved"
    /\ \A i \in DOMAIN p.episode_summaries : p.episode_summaries[i].state = "approved"

\* The rows a query of session s returns: the committed rows, each as the
\* session's identity map holds it when it was loaded before, followed by the
\* rows the session itself added and flushed.
SessionRows(s, committed) ==
    [i \in 1..Len(committed) |->
        IF committed[i].id \in DOMAIN s.view THEN s.view[committed[i].id] ELSE committed[i]]
    \o [i \in 1..Len(s.created) |-> s.view[s.created[i]]]

\* s with the row `id` set to `row` in the session
SetRow(s, id, row) ==
    [s EXCEPT !.view = (id :> row) @@ s.view,
              !.orig = IF id \in DOMAIN s.orig \/ id \in Range(s.created)
                       THEN s.orig ELSE (id :> row) @@ s.orig]

\* A transition of the session's Episode object succeeded: the state is
\* assigned, and the assignment is kept in the session's moves.
SetRowState(s, id, state) ==
    [s EXCEPT !.view = (id :> [s.view[id] EXCEPT !.state = state]) @@ s.view,
              !.moves = IF s.view[id].state = state THEN @
                        ELSE @ \cup {<<"Episode", s.view[id].state, state>>}]

Fail(s, error) == [s EXCEPT !.pc = "failed", !.error = error]

\* A flush that writes while another connection holds SQLite's write lock
\* waits for the busy timeout and raises.
OperationalError == [type |-> "OperationalError"]

\* lines 138-158 for one summary of the chunk; `locked` says that another
\* session holds the database's write lock.
PrepareEpisode(s, committed, n, locked) ==
    LET rows == SessionRows(s, committed)
        i == FirstWithNumber(rows, n)
    IN IF i # 0
       THEN LET id == rows[i].id
                s1 == SetRow(s, id, rows[i])
                reset == IF rows[i].state = "generating"
                         THEN Episode_reset_for_regen(rows[i].state)
                         ELSE [state |-> rows[i].state, error |-> NoError]
                marked == Episode_mark_generating(reset.state)
            IN IF reset.error # NoError THEN Fail(s1, reset.error)
               ELSE IF marked.error # NoError
                    THEN Fail(SetRowState(s1, id, reset.state), marked.error)
               ELSE [SetRowState(SetRowState(s1, id, reset.state), id, marked.state)
                        EXCEPT !.episode_map = (n :> id) @@ s1.episode_map]
       ELSE LET id == <<s.serial, n>>
                s1 == [s EXCEPT !.view = (id :> NewEpisode(id, n)) @@ s.view,
                                !.created = Append(s.created, id)]
                marked == Episode_mark_generating("pending")
            IN IF locked THEN Fail(s1, OperationalError)
               ELSE IF marked.error # NoError THEN Fail(s1, marked.error)
               ELSE [SetRowState(s1, id, marked.state)
                        EXCEPT !.episode_map = (n :> id) @@ s1.episode_map]

RECURSIVE PrepareChunkFrom(_, _, _, _, _)
PrepareChunkFrom(s, committed, chunk, k, locked) ==
    IF k > Len(chunk) \/ s.pc = "failed" THEN s
    ELSE PrepareChunkFrom(PrepareEpisode(s, committed, chunk[k], locked),
                          committed, chunk, k + 1, locked)

\* summaries_to_generate[chunk_start:chunk_start + AI_BATCH_SIZE]
ChunkAt(todo, chunk_start) ==
    SubSeq(todo, chunk_start + 1, Min(chunk_start + AI_BATCH_SIZE, Len(todo)))

\* lines 133-159: the chunk's Episode rows are created or found, moved to
\* generating and flushed; the request then waits for the Generator.
PrepareChunk(s, committed, locked) ==
    LET s0 == [s EXCEPT !.episode_map = <<>>]
        s1 == PrepareChunkFrom(s0, committed, ChunkAt(s.todo, s.chunk_start), 1, locked)
    IN IF s1.pc = "failed" THEN s1
       ELSE IF locked THEN Fail(s1, OperationalError)
       ELSE [s1 EXCEPT !.pc = "await"]

\* The episode numbers of episode_map in the order its keys were inserted.
MapOrder(s) == SelectNums(ChunkAt(s.todo, s.chunk_start), {n \in Range(s.todo) : n \notin DOMAIN s.episode_map})

RECURSIVE DropRepeats(_, _)
DropRepeats(nums, seen) ==
    IF nums = <<>> THEN <<>>
    ELSE IF Head(nums) \in seen THEN DropRepeats(Tail(nums), seen)
    ELSE <<Head(nums)>> \o DropRepeats(Tail(nums), seen \cup {Head(nums)})

\* episode_map.values(), one Episode object per key
MapValues(s) ==
    LET keys == DropRepeats(MapOrder(s), {})
    IN [i \in 1..Len(keys) |-> s.episode_map[keys[i]]]

RECURSIVE ResetAllFrom(_, _, _)
\* lines 184-185: for ep in episode_map.values(): ep.reset_for_regen()
ResetAllFrom(s, ids, k) ==
    IF k > Len(ids) \/ s.pc = "failed" THEN s
    ELSE LET r == Episode_reset_for_regen(s.view[ids[k]].state)
         IN IF r.error # NoError THEN Fail(s, r.error)
            ELSE ResetAllFrom(SetRowState(s, ids[k], r.state), ids, k + 1)

\* lines 182-187: the Generator raised; the handler resets the chunk, flushes
\* and raises HTTPException(500). Nothing is committed on this path.
OnGeneratorError(s) ==
    LET s1 == ResetAllFrom(s, MapValues(s), 1)
    IN IF s1.pc = "failed" THEN s1 ELSE Fail(s1, HTTPException(500))

\* ApplyScript without the lookup of lines 195-197: an item whose number is
\* not a key of episode_map ends the request with a KeyError.
ApplyScript_NoChunkTest(s, script_data) ==
    IF script_data.episodeNumber = NoNumber THEN s
    ELSE IF script_data.episodeNumber \notin DOMAIN s.episode_map
         THEN Fail(s, [type |-> "KeyError"])
    ELSE LET id == s.episode_map[script_data.episodeNumber]
             row == s.view[id]
             written == [row EXCEPT !.content = script_data.content,
                                    !.scenes = [i \in 1..script_data.scenes |-> NewScene]]
             s1 == [s EXCEPT !.view = (id :> written) @@ s.view]
             marked == Episode_mark_generated(row.state)
         IN IF marked.error # NoError THEN Fail(s1, marked.error)
            ELSE [SetRowState(s1, id, marked.state)
                     EXCEPT !.generated = Append(s.generated, script_data.episodeNumber)]

\* lines 190-270 for one item of scripts_batch
ApplyScript(s, script_data) ==
    IF script_data.episodeNumber = NoNumber THEN s
    ELSE IF script_data.episodeNumber \notin DOMAIN s.episode_map THEN s
    ELSE LET id == s.episode_map[script_data.episodeNumber]
             row == s.view[id]
             written == [row EXCEPT !.content = script_data.content,
                                    !.scenes = [i \in 1..script_data.scenes |-> NewScene]]
             s1 == [s EXCEPT !.view = (id :> written) @@ s.view]
             marked == Episode_mark_generated(row.state)
         IN IF marked.error # NoError THEN Fail(s1, marked.error)
            ELSE [SetRowState(s1, id, marked.state)
                     EXCEPT !.generated = Append(s.generated, script_data.episodeNumber)]

RECURSIVE ApplyScriptsFrom(_, _, _)
ApplyScriptsFrom(s, scripts_batch, k) ==
    IF k > Len(scripts_batch) \/ s.pc = "failed" THEN s
    ELSE ApplyScriptsFrom(ApplyScript(s, scripts_batch[k]), scripts_batch, k + 1)

RECURSIVE RollbackUnreturnedFrom(_, _, _)
\* lines 273-275: episodes the response left in generating are reset
RollbackUnreturnedFrom(s, ids, k) ==
    IF k > Len(ids) \/ s.pc = "failed" THEN s
    ELSE IF s.view[ids[k]].state # "generating" THEN RollbackUnreturnedFrom(s, ids, k + 1)
    ELSE LET r == Episode_reset_for_regen(s.view[ids[k]].state)
         IN IF r.error # NoError THEN Fail(s, r.error)
            ELSE RollbackUnreturnedFrom(SetRowState(s, ids[k], r.state), ids, k + 1)

\* lines 277-281: the step is raised to 5 and the session commits
FinishEpisodes(s) ==
    [s EXCEPT !.pc = "done",
              !.current_step = IF s.current_step < 5 THEN 5 ELSE s.current_step]

\* What a Generator call did: it raised, or it returned scripts_batch.
Raised == [kind |-> "raised"]
Returned(scripts_batch) == [kind |-> "returned", scripts_batch |-> scripts_batch]
NoOutcome == [kind |-> "none"]

\* The request resumes after the Generator call of its chunk: `outcome` is
\* what the call did, and `committed` the episode rows committed by now.
\* The session keeps the outcome and the chunk_start it answered.
ResumeEpisodes(s, committed, outcome, locked) ==
    LET s0 == [s EXCEPT !.outcome = outcome, !.answered = s.chunk_start]
    IN IF outcome.kind = "raised" THEN OnGeneratorError(s0)
       ELSE LET s1 == ApplyScriptsFrom(s0, outcome.scripts_batch, 1)
                s2 == RollbackUnreturnedFrom(s1, MapValues(s1), 1)
                s3 == [s2 EXCEPT !.chunk_start = s2.chunk_start + AI_BATCH_SIZE]
            IN IF s2.pc = "failed" THEN s2
               ELSE IF s3.chunk_start < Len(s3.todo) THEN PrepareChunk(s3, committed, locked)
               ELSE FinishEpisodes(s3)

\* lines 65-88 and the first chunk: the request as it reaches its first
\* Generator call, or as it failed before.
NewSession(p, serial, dialect) ==
    [pc |-> "start", serial |-> serial, dialect |-> dialect, error |-> NoError,
     outcome |-> NoOutcome, answered |-> 0, moves |-> {},
     current_step |-> p.current_step, loaded_step |-> p.current_step,
     view |-> <<>>, orig |-> <<>>, created |-> <<>>,
     todo |-> <<>>, chunk_start |-> 0, episode_map |-> <<>>, generated |-> <<>>]

StartEpisodes(p, serial, batch_size, dialect, locked) ==
    LET s == NewSession(p, serial, dialect)
        todo == SummariesToGenerate(p, batch_size)
        loaded == [i \in {p.episodes[j].id : j \in DOMAIN p.episodes} |->
                     p.episodes[CHOOSE j \in DOMAIN p.episodes : p.episodes[j].id = i]]
    IN IF ~StructureApproved(p) THEN Fail(s, HTTPException(400))
       ELSE IF todo = <<>> THEN Fail(s, HTTPException(400))
       ELSE PrepareChunk([s EXCEPT !.todo = todo, !.view = loaded, !.orig = loaded],
                         p.episodes, locked)

\* db.commit(): the session's inserts and updates become the committed rows.
Commit(p, s) ==
    [p EXCEPT
       !.current_step = IF s.current_step # s.loaded_step THEN s.current_step ELSE @,
       !.episodes =
           [i \in 1..Len(p.episodes) |->
               IF /\ p.episodes[i].id \in DOMAIN s.orig
                  /\ s.view[p.episodes[i].id] # s.orig[p.episodes[i].id]
               THEN s.view[p.episodes[i].id] ELSE p.episodes[i]]
           \o [i \in 1..Len(s.created) |-> s.view[s.created[i]]]]

(***************************************************************************)
(* SpecGen: concurrent generate_episodes requests on a project whose       *)
(* structure is approved, with Generator results of any shape, Generator   *)
(* failures and process crashes.                                           *)
(***************************************************************************)
NumSummaries == 4       \* episode summaries of the project
MaxRequests == 2        \* generate_episodes requests made in one behaviour
MaxScripts == 2         \* items in one Generator response
NumContents == 1        \* distinct script bodies the Generator returns
MaxScenes == 1          \* scenes in one script

Requests == 1..MaxRequests
BatchSizes == {2, 5}    \* body.batch_size; 5 is the default of the request schema

\* The items a Generator response is made of: an episode number (or none)
\* with a script body.
ScriptItems ==
    [episodeNumber : (1..NumSummaries) \cup {NoNumber},
     content : 1..NumContents, scenes : {0, MaxScenes}]

Responses == UNION {[1..n -> ScriptItems] : n \in 0..MaxScripts}

\* One item per episode number of `nums`, in order: a complete response.
FullResponse(nums, content, scenes) ==
    [i \in 1..Len(nums) |-> [episodeNumber |-> nums[i], content |-> content, scenes |-> scenes]]

ApprovedStructure ==
    [NewProject EXCEPT
       !.current_step = 4, !.title = "t1", !.setting = "s1",
       !.ideas = <<[title |-> "t1", setting |-> "s1", state |-> "approved"]>>,
       !.characters = <<[state |-> "approved", reference |-> NoRow]>>,
       !.locations = <<[state |-> "approved", reference |-> NoRow]>>,
       !.episode_summaries = [n \in 1..NumSummaries |-> [episode_number |-> n, state |-> "approved"]]]

\* DATABASE_URL: SQLite by default, one writer at a time; or a database
\* whose connections write side by side and read what is committed.
Dialects == {"sqlite", "postgresql"}

Idle(dialect) == [pc |-> "idle", dialect |-> dialect]

\* Another request has flushed and not yet committed, on SQLite.
Locked(r) ==
    /\ reqs[r].dialect = "sqlite"
    /\ \E other \in Requests \ {r} : reqs[other].pc = "await"

\* The project after a first generate_episodes request with batch_size 2
\* and approve_episode on its first episode.
PartlyScripted ==
    LET s == ResumeEpisodes(StartEpisodes(ApprovedStructure, 0, 2, "sqlite", FALSE), <<>>,
                            Returned(FullResponse(<<1, 2>>, 1, MaxScenes)), FALSE)
        p == Commit(ApprovedStructure, s)
    IN [p EXCEPT !.episodes[1].state = Episode_approve(p.episodes[1].state).state]

InitGen ==
    /\ db \in {ApprovedStructure, PartlyScripted}
    /\ \E dialect \in Dialects : reqs = [r \in Requests |-> Idle(dialect)]
    /\ sm = [kind |-> "none"]
    /\ resp = NoResp

\* POST /projects/{id}/episodes/generate arrives and runs to its first await
GenStart(r, batch_size) ==
    /\ reqs[r].pc = "idle"
    /\ reqs' = [reqs EXCEPT ![r] = StartEpisodes(db, r, batch_size, reqs[r].dialect, Locked(r))]
    /\ UNCHANGED <<db, sm, resp>>

\* the Generator call of request r returns or raises, and r runs on to its
\* next await or to its end
GenResume(r, outcome) ==
    /\ reqs[r].pc = "await"
    /\ LET s == ResumeEpisodes(reqs[r], db.episodes, outcome, Locked(r))
       IN /\ reqs' = [reqs EXCEPT ![r] = s]
          /\ db' = IF s.pc = "done" THEN Commit(db, s) ELSE db
    /\ UNCHANGED <<sm, resp>>

GenReturns(r) ==
    \/ \E scripts_batch \in Responses :
          GenResume(r, Returned(scripts_batch))
    \/ \E content \in 1..NumContents, scenes \in {0, MaxScenes} :
          /\ reqs[r].pc = "await"
          /\ GenResume(r, Returned(FullResponse(ChunkAt(reqs[r].todo, reqs[r].chunk_start),
                                                 content, scenes)))

GenRaises(r) == GenResume(r, Raised)

\* the server process dies: every request in flight is gone with its session
Crash ==
    /\ \E r \in Requests : reqs[r].pc = "await"
    /\ reqs' = [r \in Requests |->
                  IF reqs[r].pc = "await" THEN [reqs[r] EXCEPT !.pc = "crashed"] ELSE reqs[r]]
    /\ UNCHANGED <<db, sm, resp>>

NextGen ==
    \/ \E r \in Requests, batch_size \in BatchSizes : GenStart(r, batch_size)
    \/ \E r \in Requests : GenReturns(r)
    \/ \E r \in Requests : GenRaises(r)
    \/ Crash

SpecGen == InitGen /\ [][NextGen]_vars

(***************************************************************************)
(* Properties of generate_episodes, checked under SpecGen.                 *)
(***************************************************************************)
\* The Episode row as it was before the request touched it.
PreCall(s, id) ==
    IF id \in DOMAIN s.orig THEN s.orig[id] ELSE NewEpisode(id, s.view[id].episode_number)

\* The committed rows show episode number n in `state`.
CommittedAs(n, state) ==
    \E i \in DOMAIN db.episodes :
        db.episodes[i].episode_number = n /\ db.episodes[i].state = state

\* The chunk the last Generator call of the request was made for.
AnsweredChunk(s) == ChunkAt(s.todo, s.answered)

\* C5: when generate_episodes fails because the Generator raised for a chunk,
\* every episode of that chunk is pending again (in the request's session or
\* in the committed rows), none is generating, and its content and scenes are
\* those it had before the call.
C5_RollbackOnGeneratorFailure ==
    \A r \in Requests :
        (reqs[r].pc = "failed" /\ reqs[r].outcome = Raised) =>
            \A n \in DOMAIN reqs[r].episode_map :
                LET s == reqs[r]
                    id == s.episode_map[n]
                IN /\ s.view[id].state = "pending" \/ CommittedAs(n, "pending")
                   /\ s.view[id].state # "generating"
                   /\ s.view[id].content = PreCall(s, id).content
                   /\ s.view[id].scenes = PreCall(s, id).scenes

\* C6: when the Generator succeeded for an earlier chunk and raised for a
\* later one, the committed rows hold every episode of the earlier chunk in
\* generated state with the content the request applied.
C6_EarlierChunksStayCommitted ==
    \A r \in Requests :
        (reqs[r].pc = "failed" /\ reqs[r].outcome = Raised /\ reqs[r].answered > 0) =>
            \A n \in Range(reqs[r].generated) :
                \E i \in DOMAIN db.episodes, id \in DOMAIN reqs[r].view :
                    /\ db.episodes[i] = reqs[r].view[id]
                    /\ db.episodes[i].episode_number = n
                    /\ db.episodes[i].state = "generated"

\* The response names some, but not all, episode numbers of the chunk, each
\* once.
PartialResponse(scripts_batch, chunk) ==
    /\ scripts_batch # <<>>
    /\ \A i \in DOMAIN scripts_batch : scripts_batch[i].episodeNumber \in Range(chunk)
    /\ \A i, j \in DOMAIN scripts_batch :
          scripts_batch[i].episodeNumber = scripts_batch[j].episodeNumber => i = j
    /\ Len(scripts_batch) < Len(chunk)

\* C7: when the Generator returned items for only some episode numbers of a
\* chunk, the request did not fail on that response, every returned episode
\* is generated with the returned content, and every other episode of the
\* chunk is pending with the content it had before.
C7_PartialResponseKeepsReturned ==
    \A r \in Requests :
        (/\ reqs[r].pc # "idle"
         /\ reqs[r].outcome.kind = "returned"
         /\ PartialResponse(reqs[r].outcome.scripts_batch, AnsweredChunk(reqs[r]))) =>
            LET s == reqs[r]
                batch == s.outcome.scripts_batch
                chunk == AnsweredChunk(s)
            IN /\ ~(s.pc = "failed" /\ s.chunk_start = s.answered)
               /\ \A i \in DOMAIN batch :
                     \E id \in DOMAIN s.view :
                        /\ s.view[id].episode_number = batch[i].episodeNumber
                        /\ s.view[id].state = "generated"
                        /\ s.view[id].content = batch[i].content
               /\ \A n \in Range(chunk) :
                     (\A i \in DOMAIN batch : batch[i].episodeNumber # n) =>
                        \E id \in DOMAIN s.view :
                           /\ s.view[id].episode_number = n
                           /\ s.view[id].state = "pending"
                           /\ s.view[id].content = PreCall(s, id).content

\* C8: after a crash between the flush of a chunk and the return of its
\* Generator call, the committed rows show every episode of that chunk in
\* generating state.
C8_CrashLeavesGenerating ==
    \A r \in Requests :
        reqs[r].pc = "crashed" =>
            \A n \in DOMAIN reqs[r].episode_map : CommittedAs(n, "generating")

\* Request r arrives while another request waits for its Generator call
\* with an episode of r's first chunk moved to generating.
ArrivesSecond(r) ==
    /\ reqs[r].pc = "idle" /\ reqs'[r].pc # "idle"
    /\ \E first \in Requests \ {r} :
          /\ reqs[first].pc = "await"
          /\ DOMAIN reqs[first].episode_map \cap Range(ChunkAt(reqs'[r].todo, 0)) # {}

\* C9: when two generate_episodes requests interleave at the Generator call,
\* the request that comes second is refused by the transition check
\* (InvalidTransitionError) and moves no episode; and every change of an
\* Episode's state in a request is an edge of the Episode table.
C9_SecondRequestRefused ==
    [][/\ \A r \in Requests :
             ArrivesSecond(r) =>
                /\ reqs'[r].error.type = "InvalidTransitionError"
                /\ reqs'[r].episode_map = <<>>
       /\ \A r \in Requests :
             (reqs[r].pc # "idle" /\ reqs'[r].pc # "idle") =>
                \A id \in DOMAIN reqs[r].view \cap DOMAIN reqs'[r].view :
                   \/ reqs'[r].view[id].state = reqs[r].view[id].state
                   \/ reqs'[r].view[id].state \in EpisodeTransitions(reqs[r].view[id].state)]_vars

\* No item of the response names an episode number of the chunk.
NothingUsable(scripts_batch, chunk) ==
    \A i \in DOMAIN scripts_batch :
        \/ scripts_batch[i].episodeNumber = NoNumber
        \/ scripts_batch[i].episodeNumber \notin Range(chunk)

\* C28: when the Generator returned no usable item for a chunk (an empty
\* list, or only items without an episode number or with a number outside
\* the chunk), the request did not fail on that response and every episode
\* of the chunk is pending again with the content it had before.
C28_EmptyResponseContinues ==
    \A r \in Requests :
        (/\ reqs[r].pc # "idle"
         /\ reqs[r].outcome.kind = "returned"
         /\ NothingUsable(reqs[r].outcome.scripts_batch, AnsweredChunk(reqs[r]))) =>
            LET s == reqs[r]
            IN /\ ~(s.pc = "failed" /\ s.chunk_start = s.answered)
               /\ \A n \in Range(AnsweredChunk(s)) :
                     \E id \in DOMAIN s.view :
                        /\ s.view[id].episode_number = n
                        /\ s.view[id].state = "pending"
                        /\ s.view[id].content = PreCall(s, id).content

\* The items of a response that name an episode number outside the chunk.
ForeignItems(chunk) ==
    {item \in ScriptItems : item.episodeNumber # NoNumber /\ item.episodeNumber \notin Range(chunk)}

\* scripts_batch with `item` put in front of position k
InsertAt(scripts_batch, k, item) ==
    SubSeq(scripts_batch, 1, k - 1) \o <<item>> \o SubSeq(scripts_batch, k, Len(scripts_batch))

\* C29: for a request that waits for the Generator, a response with an item
\* whose episode number is outside the current chunk is handled as the same
\* response without that item: the item raises no error, creates no Episode
\* and changes no episode's state, content or scenes, in or out of the chunk.
C29_ForeignItemSkipped ==
    \A r \in Requests :
        reqs[r].pc = "await" =>
            LET s == reqs[r]
                chunk == ChunkAt(s.todo, s.chunk_start)
            IN \A item \in ForeignItems(chunk) :
                  /\ ApplyScript(s, item) = s
                  /\ \A scripts_batch \in Responses :
                        Len(scripts_batch) < MaxScripts =>
                           \A k \in 1..(Len(scripts_batch) + 1) :
                              LET with == ResumeEpisodes(s, db.episodes,
                                              Returned(InsertAt(scripts_batch, k, item)), Locked(r))
                                  without == ResumeEpisodes(s, db.episodes,
                                                 Returned(scripts_batch), Locked(r))
                              IN with = [without EXCEPT !.outcome = with.outcome]

\* A request ended with every episode generated although the last response
\* held an item for an episode of an earlier chunk, which kept its content.
C29_Witness ==
    \E r \in Requests :
        /\ reqs[r].pc = "done"
        /\ reqs[r].outcome.kind = "returned"
        /\ \E i \in DOMAIN reqs[r].outcome.scripts_batch :
              reqs[r].outcome.scripts_batch[i] \in ForeignItems(AnsweredChunk(reqs[r]))
        /\ \A i \in DOMAIN db.episodes : db.episodes[i].state = "generated"
        /\ Len(db.episodes) = NumSummaries

C38_AnyResponseTolerated ==
    \A r \in Requests :
        (reqs[r].pc # "idle" /\ reqs[r].outcome.kind = "returned") =>
            LET s == reqs[r]
            IN /\ ~(/\ s.pc = "failed"
                    /\ s.chunk_start = s.answered
                    /\ s.error.type = "InvalidTransitionError")
               /\ \A n \in Range(AnsweredChunk(s)) :
                     \E id \in DOMAIN s.view :
                        /\ s.view[id].episode_number = n
                        /\ s.view[id].state \in {"generated", "pending"}

\* The request ended with InvalidTransitionError on a response that named
\* one episode number twice.
RepeatedItemRefused ==
    \E r \in Requests :
        /\ reqs[r].pc = "failed"
        /\ reqs[r].outcome.kind = "returned"
        /\ reqs[r].error.type = "InvalidTransitionError"
        /\ reqs[r].chunk_start = reqs[r].answered
        /\ \E i, j \in DOMAIN reqs[r].outcome.scripts_batch :
              /\ i # j
              /\ reqs[r].outcome.scripts_batch[i].episodeNumber
                    = reqs[r].outcome.scripts_batch[j].episodeNumber

(***************************************************************************)
(* Project: the step gates                                                 *)
(***************************************************************************)
\* for e in self.episodes for s in e.scenes for p in s.image_prompts
ImagePromptsOf(p) ==
    UNION {UNION {Range(p.episodes[e].scenes[s].image_prompts) :
                     s \in DOMAIN p.episodes[e].scenes} : e \in DOMAIN p.episodes}

\* for e in self.episodes for s in e.scenes for vp in s.video_prompts
VideoPromptsOf(p) ==
    UNION {UNION {Range(p.episodes[e].scenes[s].video_prompts) :
                     s \in DOMAIN p.episodes[e].scenes} : e \in DOMAIN p.episodes}

_check_step_2(p) == \E i \in DOMAIN p.ideas : p.ideas[i].state = "approved"

_check_step_4(p) ==
    Len(p.characters) > 0 /\ Len(p.locations) > 0 /\ Len(p.episode_summaries) > 0

\* _check_step_5 as changed by a bug that looks at the characters only.
_check_step_5_CharactersOnly(p) ==
    \A i \in DOMAIN p.characters : p.characters[i].state = "approved"

_check_step_5(p) ==
    /\ \A i \in DOMAIN p.characters : p.characters[i].state = "approved"
    /\ \A i \in DOMAIN p.locations : p.locations[i].state = "approved"
    /\ \A i \in DOMAIN p.episode_summaries : p.episode_summaries[i].state = "approved"

\* _check_step_6 as changed by a bug that counts approved episodes too.
_check_step_6_OrApproved(p) ==
    \E i \in DOMAIN p.episodes : p.episodes[i].state \in {"generated", "approved"}

_check_step_6(p) == \E i \in DOMAIN p.episodes : p.episodes[i].state = "generated"

\* _check_step_8 as changed by a bug that lets a missing reference pass.
_check_step_8_MissingRefPasses(p) ==
    LET has_prompts == \E ip \in ImagePromptsOf(p) : ip.state \in {"generated", "approved"}
        has_char_refs == \A i \in DOMAIN p.characters :
                            \/ p.characters[i].reference = NoRow
                            \/ p.characters[i].reference.state # "pending"
        has_loc_refs == \A i \in DOMAIN p.locations :
                           \/ p.locations[i].reference = NoRow
                           \/ p.locations[i].reference.state # "pending"
    IN has_prompts /\ has_char_refs /\ has_loc_refs

_check_step_8(p) ==
    LET has_prompts == \E ip \in ImagePromptsOf(p) : ip.state \in {"generated", "approved"}
        has_char_refs == \A i \in DOMAIN p.characters :
                            /\ p.characters[i].reference # NoRow
                            /\ p.characters[i].reference.state # "pending"
        has_loc_refs == \A i \in DOMAIN p.locations :
                           /\ p.locations[i].reference # NoRow
                           /\ p.locations[i].reference.state # "pending"
    IN has_prompts /\ has_char_refs /\ has_loc_refs

_check_step_10(p) ==
    \E ip \in ImagePromptsOf(p) :
        ip.generated_image # NoRow /\ ip.generated_image.state = "generated"

\* _check_step_11 as changed by a bug that does not ask for an approved image.
_check_step_11_ReviewedOnly(p) ==
    LET images == {ip.generated_image : ip \in {q \in ImagePromptsOf(p) : q.generated_image # NoRow}}
    IN IF images = {} THEN FALSE
       ELSE \A img \in images : img.state \in {"approved", "rejected"}

_check_step_11(p) ==
    LET images == {ip.generated_image : ip \in {q \in ImagePromptsOf(p) : q.generated_image # NoRow}}
    IN IF images = {} THEN FALSE
       ELSE /\ \A img \in images : img.state \in {"approved", "rejected"}
            /\ \E img \in images : img.state = "approved"

_check_step_12(p) == \E vp \in VideoPromptsOf(p) : vp.state = "approved"

\* step_checks.get(step), then check_fn() if check_fn else True
step_checks(p, step) ==
    CASE step \in {2, 3} -> _check_step_2(p)
      [] step = 4 -> _check_step_4(p)
      [] step = 5 -> _check_step_5(p)
      [] step \in {6, 7} -> _check_step_6(p)
      [] step \in {8, 9} -> _check_step_8(p)
      [] step = 10 -> _check_step_10(p)
      [] step = 11 -> _check_step_11(p)
      [] step = 12 -> _check_step_12(p)
      [] OTHER -> TRUE

\* can_advance_to as changed by a bug that drops the no-skip test.
can_advance_to_NoSkipTest(p, step) ==
    IF step <= p.current_step THEN TRUE
    ELSE step_checks(p, step)

can_advance_to_Strict(p, step) ==
    IF step < p.current_step THEN TRUE
    ELSE IF step > p.current_step + 1 THEN FALSE
    ELSE step_checks(p, step)

can_advance_to(p, step) ==
    IF step <= p.current_step THEN TRUE
    ELSE IF step > p.current_step + 1 THEN FALSE
    ELSE step_checks(p, step)

(***************************************************************************)
(* Entity methods                                                          *)
(***************************************************************************)
\* Idea.approve as changed by a bug that assigns without asking the table.
Idea_approve_Unchecked(state) == transition_to_Unchecked("Idea", state, "approved")

Idea_approve(state) == transition_to("Idea", state, "approved")
Idea_reject(state) == transition_to("Idea", state, "rejected")

\* Character, Location and EpisodeSummary have the same three methods.
Structure_approve(kind, state) == transition_to(kind, state, "approved")

Structure_modify(kind, state) ==
    IF state # "approved" THEN transition_to(kind, state, "modified")
    ELSE [state |-> state, error |-> NoError]

Structure_unapprove(kind, state) == transition_to(kind, state, "modified")

\* ImagePrompt and VideoPrompt
Prompt_mark_generated(kind, state) == transition_to(kind, state, "generated")
Prompt_approve(kind, state) == transition_to(kind, state, "approved")

\* CharacterRef, LocationRef, GeneratedImage, Thumbnail and GeneratedVideo:
\* m is the row, with its state and its image_path or video_path.
Media_mark_generating(kind, m) ==
    LET t == transition_to(kind, m.state, "generating")
    IN [state |-> t.state, path |-> m.path, error |-> t.error]

\* the path is assigned before the transition is checked
Media_mark_generated(kind, m, path) ==
    LET t == transition_to(kind, m.state, "generated")
    IN [state |-> t.state, path |-> path, error |-> t.error]

Media_approve(kind, m) ==
    LET t == transition_to(kind, m.state, "approved")
    IN [state |-> t.state, path |-> m.path, error |-> t.error]

Media_reject(kind, m) ==
    LET t == transition_to(kind, m.state, "rejected")
    IN [state |-> t.state, path |-> m.path, error |-> t.error]

\* reset_for_regen as changed by a bug that forgets to clear the path.
Media_reset_for_regen_KeepsPath(kind, m) ==
    LET t == transition_to(kind, m.state, "pending")
    IN [state |-> t.state, path |-> m.path, error |-> t.error]

\* the path is cleared after the transition succeeded
Media_reset_for_regen(kind, m) ==
    LET t == transition_to(kind, m.state, "pending")
    IN [state |-> t.state, path |-> IF t.error = NoError THEN None ELSE m.path,
        error |-> t.error]

NewMedia(state) == [state |-> state, path |-> None]

(***************************************************************************)
(* API handlers, each run from its request to its response on the          *)
(* committed project p. A handler gives the project it leaves committed,   *)
(* the status of its response, and the state assignments it made on        *)
(* entities that existed, as triples <<entity type, from, to>>.            *)
(***************************************************************************)
Ok(p, moves) == [p |-> p, status |-> 200, moves |-> moves]

\* An exception leaves the handler: get_db closes the session, what was not
\* committed is rolled back.
Err(p, status, moves) == [p |-> p, status |-> status, moves |-> moves]

\* The status the application answers an exception with (main.py).
StatusOf(error) ==
    CASE error.type = "InvalidTransitionError" -> 409
      [] error.type = "HTTPException" -> error.status_code
      [] OTHER -> 500

\* The assignment a successful transition made.
Move(kind, from, result) ==
    IF result.error = NoError /\ result.state # from THEN {<<kind, from, result.state>>} ELSE {}

\* ---- ideas.py ----------------------------------------------------------
NewIdea(idea_data) == [title |-> idea_data.title, setting |-> idea_data.setting, state |-> "draft"]

generate_ideas(p, outcome) ==
    IF outcome.kind = "raised" THEN Err(p, 500, {})
    ELSE Ok([p EXCEPT !.ideas = [i \in DOMAIN outcome.ideas_data |-> NewIdea(outcome.ideas_data[i])]], {})

add_custom_idea(p, request) == Ok([p EXCEPT !.ideas = Append(@, NewIdea(request))], {})

\* approve_idea as changed by a bug that leaves the sibling drafts alone.
approve_idea_KeepsSiblings(p, idea_id) ==
    IF idea_id \notin DOMAIN p.ideas THEN Err(p, 404, {})
    ELSE LET approved == Idea_approve(p.ideas[idea_id].state)
         IN IF approved.error # NoError THEN Err(p, StatusOf(approved.error), {})
            ELSE Ok([p EXCEPT !.ideas[idea_id].state = approved.state,
                              !.title = p.ideas[idea_id].title,
                              !.setting = p.ideas[idea_id].setting,
                              !.current_step = IF @ < 2 THEN 2 ELSE @],
                    Move("Idea", p.ideas[idea_id].state, approved))

\* approve_idea as changed by a bug that writes the step without comparing.
approve_idea_SetsStep(p, idea_id) ==
    IF idea_id \notin DOMAIN p.ideas THEN Err(p, 404, {})
    ELSE LET others == {j \in DOMAIN p.ideas : j # idea_id /\ p.ideas[j].state = "draft"}
             rejected == {<<"Idea", "draft", "rejected">> : j \in others}
             approved == Idea_approve(p.ideas[idea_id].state)
             ideas == [j \in DOMAIN p.ideas |->
                         IF j \in others THEN [p.ideas[j] EXCEPT !.state = "rejected"]
                         ELSE IF j = idea_id THEN [p.ideas[j] EXCEPT !.state = approved.state]
                         ELSE p.ideas[j]]
         IN IF approved.error # NoError THEN Err(p, StatusOf(approved.error), rejected)
            ELSE Ok([p EXCEPT !.ideas = ideas,
                              !.title = p.ideas[idea_id].title,
                              !.setting = p.ideas[idea_id].setting,
                              !.current_step = 2],
                    rejected \cup Move("Idea", p.ideas[idea_id].state, approved))

approve_idea(p, idea_id) ==
    IF idea_id \notin DOMAIN p.ideas THEN Err(p, 404, {})
    ELSE LET others == {j \in DOMAIN p.ideas : j # idea_id /\ p.ideas[j].state = "draft"}
             rejected == {<<"Idea", "draft", "rejected">> : j \in others}
             approved == Idea_approve(p.ideas[idea_id].state)
             ideas == [j \in DOMAIN p.ideas |->
                         IF j \in others THEN [p.ideas[j] EXCEPT !.state = "rejected"]
                         ELSE IF j = idea_id THEN [p.ideas[j] EXCEPT !.state = approved.state]
                         ELSE p.ideas[j]]
         IN IF approved.error # NoError THEN Err(p, StatusOf(approved.error), rejected)
            ELSE Ok([p EXCEPT !.ideas = ideas,
                              !.title = p.ideas[idea_id].title,
                              !.setting = p.ideas[idea_id].setting,
                              !.current_step = IF @ < 2 THEN 2 ELSE @],
                    rejected \cup Move("Idea", p.ideas[idea_id].state, approved))

reject_idea(p, idea_id) ==
    IF idea_id \notin DOMAIN p.ideas THEN Err(p, 404, {})
    ELSE LET r == Idea_reject(p.ideas[idea_id].state)
         IN IF r.error # NoError THEN Err(p, StatusOf(r.error), {})
            ELSE Ok([p EXCEPT !.ideas[idea_id].state = r.state],
                    Move("Idea", p.ideas[idea_id].state, r))

\* ---- projects.py -------------------------------------------------------
\* advance_step without the test for the final step.
advance_step_PastLast(p) ==
    LET next_step == p.current_step + 1
    IN IF ~can_advance_to(p, next_step) THEN Err(p, 400, {})
       ELSE Ok([p EXCEPT !.current_step = next_step], {}) @@ [current_step |-> next_step]

\* advance_step without the question to the gate.
advance_step_NoGate(p) ==
    LET next_step == p.current_step + 1
    IN IF next_step > 12 THEN Err(p, 400, {})
       ELSE Ok([p EXCEPT !.current_step = next_step], {}) @@ [current_step |-> next_step]

\* POST /projects/{id}/advance-step; the response body names the new step.
advance_step(p) ==
    LET next_step == p.current_step + 1
    IN IF next_step > 12 THEN Err(p, 400, {})
       ELSE IF ~can_advance_to(p, next_step) THEN Err(p, 400, {})
       ELSE Ok([p EXCEPT !.current_step = next_step], {}) @@ [current_step |-> next_step]

\* Project.num_episodes, the column's default
num_episodes == 20

\* The GeneratedImage rows of the project, by the position of their prompt.
ImageIdsOf(p) ==
    UNION {UNION {{<<e, s, k>> : k \in {x \in DOMAIN p.episodes[e].scenes[s].image_prompts :
                      p.episodes[e].scenes[s].image_prompts[x].generated_image # NoRow}} :
                  s \in DOMAIN p.episodes[e].scenes} :
           e \in DOMAIN p.episodes}

\* _get_step_stats: items_pending and blocking_reason of its result (the
\* count an f-string puts into the reason is left out of the text).
_get_step_stats(p, step) ==
    LET Approved(rows) == {i \in DOMAIN rows : rows[i].state = "approved"}
        structure_done == (IF Len(p.characters) > 0 THEN 1 ELSE 0)
                          + (IF Len(p.locations) > 0 THEN 1 ELSE 0)
                          + (IF Len(p.episode_summaries) > 0 THEN 1 ELSE 0)
        structure_total == Len(p.characters) + Len(p.locations) + Len(p.episode_summaries)
        structure_approved == Cardinality(Approved(p.characters)) + Cardinality(Approved(p.locations))
                              + Cardinality(Approved(p.episode_summaries))
        episodes_done == Cardinality({e \in DOMAIN p.episodes :
                                        p.episodes[e].state \in {"generated", "approved"}})
        images_pending == Cardinality({id \in ImageIdsOf(p) :
            p.episodes[id[1]].scenes[id[2]].image_prompts[id[3]].generated_image.state = "generated"})
    IN CASE step = 1 ->
              [items_pending |-> 3 - Len(p.ideas),
               blocking_reason |-> IF 3 - Len(p.ideas) > 0 THEN "Generate ideas first" ELSE None]
         [] step = 2 ->
              [items_pending |-> 0,
               blocking_reason |-> IF Approved(p.ideas) = {} THEN "Select an idea to continue"
                                   ELSE None]
         [] step = 3 ->
              [items_pending |-> 3 - structure_done,
               blocking_reason |-> IF 3 - structure_done > 0
                                   THEN "Generate structure (characters, locations, episode arc)"
                                   ELSE None]
         [] step = 4 ->
              [items_pending |-> structure_total - structure_approved,
               blocking_reason |->
                   IF ~(/\ Approved(p.characters) = DOMAIN p.characters
                        /\ Approved(p.locations) = DOMAIN p.locations
                        /\ Approved(p.episode_summaries) = DOMAIN p.episode_summaries)
                   THEN "Approve all characters, locations, and episode summaries"
                   ELSE None]
         [] step = 5 ->
              [items_pending |-> num_episodes - episodes_done,
               blocking_reason |-> IF num_episodes - episodes_done > 0
                                   THEN "Generate remaining episodes" ELSE None]
         [] step = 10 ->
              [items_pending |-> images_pending,
               blocking_reason |-> IF images_pending > 0 THEN "Review pending images" ELSE None]
         [] OTHER -> [items_pending |-> 0, blocking_reason |-> None]

\* get_step_progress as changed by a bug that moves the project on when the
\* gate is open.
get_step_progress_Advancing(p) ==
    LET step == p.current_step
        can_proceed == can_advance_to(p, step + 1)
    IN [p |-> IF can_proceed /\ step < 12 THEN [p EXCEPT !.current_step = step + 1] ELSE p,
        status |-> 200, moves |-> {},
        progress |-> [current_step |-> step, can_proceed |-> can_proceed,
                      blocking_reason |-> IF ~can_proceed
                                          THEN _get_step_stats(p, step).blocking_reason
                                          ELSE None]]

\* GET /projects/{id}/progress: reads the step, asks the gate for the next
\* step, counts items; it assigns nothing and commits nothing.
get_step_progress(p) ==
    LET step == p.current_step
        can_proceed == can_advance_to(p, step + 1)
    IN [p |-> p, status |-> 200, moves |-> {},
        progress |-> [current_step |-> step, can_proceed |-> can_proceed,
                      blocking_reason |-> IF ~can_proceed
                                          THEN _get_step_stats(p, step).blocking_reason
                                          ELSE None]]

\* ---- structure.py ------------------------------------------------------
NewStructure(kind, i) ==
    IF kind = "EpisodeSummary" THEN [episode_number |-> i, state |-> "draft"]
    ELSE [state |-> "draft", reference |-> NoRow]

\* The rows a handler reaches an entity of the three structure kinds by.
StructureField(kind) ==
    CASE kind = "Character" -> "characters"
      [] kind = "Location" -> "locations"
      [] kind = "EpisodeSummary" -> "episode_summaries"

generate_structure(p, outcome) ==
    IF ~\E i \in DOMAIN p.ideas : p.ideas[i].state = "approved" THEN Err(p, 400, {})
    ELSE IF outcome.kind = "raised" THEN Err(p, 500, {})
    ELSE Ok([p EXCEPT
               !.characters = [i \in 1..outcome.characters |-> NewStructure("Character", i)],
               !.locations = [i \in 1..outcome.locations |-> NewStructure("Location", i)],
               !.episode_summaries =
                   [i \in 1..outcome.episode_arc |-> NewStructure("EpisodeSummary", i)],
               !.current_step = IF @ < 3 THEN 3 ELSE @], {})

\* update_character, update_location, update_episode_summary
UpdateStructure(p, kind, id) ==
    LET rows == p[StructureField(kind)]
    IN IF id \notin DOMAIN rows THEN Err(p, 404, {})
       ELSE LET r == Structure_modify(kind, rows[id].state)
            IN IF r.error # NoError THEN Err(p, StatusOf(r.error), {})
               ELSE Ok([p EXCEPT ![StructureField(kind)][id].state = r.state],
                       Move(kind, rows[id].state, r))

update_character(p, character_id) == UpdateStructure(p, "Character", character_id)
update_location(p, location_id) == UpdateStructure(p, "Location", location_id)
update_episode_summary(p, summary_id) == UpdateStructure(p, "EpisodeSummary", summary_id)

\* approve_character, approve_location, approve_episode_summary
ApproveStructure(p, kind, id) ==
    LET rows == p[StructureField(kind)]
    IN IF id \notin DOMAIN rows THEN Err(p, 404, {})
       ELSE LET r == Structure_approve(kind, rows[id].state)
            IN IF r.error # NoError THEN Err(p, StatusOf(r.error), {})
               ELSE Ok([p EXCEPT ![StructureField(kind)][id].state = r.state],
                       Move(kind, rows[id].state, r))

approve_character(p, character_id) == ApproveStructure(p, "Character", character_id)
approve_location(p, location_id) == ApproveStructure(p, "Location", location_id)
approve_episode_summary(p, summary_id) == ApproveStructure(p, "EpisodeSummary", summary_id)

\* The rows of one kind that approve() refuses.
Refused(kind, rows) ==
    {i \in DOMAIN rows : Structure_approve(kind, rows[i].state).error # NoError}

ApprovedRows(kind, rows) ==
    [i \in DOMAIN rows |-> [rows[i] EXCEPT !.state = Structure_approve(kind, rows[i].state).state]]

\* The assignments made on rows until the first refusal.
ApproveMoves(kind, rows) ==
    UNION {Move(kind, rows[i].state, Structure_approve(kind, rows[i].state)) :
              i \in {j \in DOMAIN rows : \A k \in Refused(kind, rows) : j < k}}

\* approve_all_structure as changed by a bug that commits each kind as it
\* goes: the kinds approved before the refusal stay approved.
approve_all_structure_CommitsAsItGoes(p) ==
    LET chars == ApproveMoves("Character", p.characters)
        locs == ApproveMoves("Location", p.locations)
        eps == ApproveMoves("EpisodeSummary", p.episode_summaries)
        p1 == [p EXCEPT !.characters = ApprovedRows("Character", p.characters)]
        p2 == [p1 EXCEPT !.locations = ApprovedRows("Location", p.locations)]
    IN IF Refused("Character", p.characters) # {} THEN Err(p, 409, chars)
       ELSE IF Refused("Location", p.locations) # {} THEN Err(p1, 409, chars \cup locs)
       ELSE IF Refused("EpisodeSummary", p.episode_summaries) # {}
            THEN Err(p2, 409, chars \cup locs \cup eps)
       ELSE Ok([p EXCEPT
                  !.characters = ApprovedRows("Character", p.characters),
                  !.locations = ApprovedRows("Location", p.locations),
                  !.episode_summaries = ApprovedRows("EpisodeSummary", p.episode_summaries),
                  !.current_step = IF @ < 4 THEN 4 ELSE @],
               chars \cup locs \cup eps)

approve_all_structure(p) ==
    LET chars == ApproveMoves("Character", p.characters)
        locs == ApproveMoves("Location", p.locations)
        eps == ApproveMoves("EpisodeSummary", p.episode_summaries)
    IN IF Refused("Character", p.characters) # {} THEN Err(p, 409, chars)
       ELSE IF Refused("Location", p.locations) # {} THEN Err(p, 409, chars \cup locs)
       ELSE IF Refused("EpisodeSummary", p.episode_summaries) # {}
            THEN Err(p, 409, chars \cup locs \cup eps)
       ELSE Ok([p EXCEPT
                  !.characters = ApprovedRows("Character", p.characters),
                  !.locations = ApprovedRows("Location", p.locations),
                  !.episode_summaries = ApprovedRows("EpisodeSummary", p.episode_summaries),
                  !.current_step = IF @ < 4 THEN 4 ELSE @],
               chars \cup locs \cup eps)

\* ---- episodes.py -------------------------------------------------------
\* What the Generator does in one generate_episodes request: it raises, it
\* returns nothing, it returns a script for every episode asked for, or it
\* returns every such script twice.
GeneratorOutcome(s, gen) ==
    CASE gen.kind = "raised" -> Raised
      [] gen.kind = "empty" -> Returned(<<>>)
      [] gen.kind = "repeated" ->
            Returned(FullResponse(ChunkAt(s.todo, s.chunk_start), gen.content, gen.scenes)
                     \o FullResponse(ChunkAt(s.todo, s.chunk_start), gen.content, gen.scenes))
      [] OTHER -> Returned(FullResponse(ChunkAt(s.todo, s.chunk_start), gen.content, gen.scenes))

RECURSIVE RunEpisodes(_, _, _)
\* The request runs alone from its first Generator call to its end.
RunEpisodes(s, p, gen) ==
    IF s.pc # "await" THEN s
    ELSE RunEpisodes(ResumeEpisodes(s, p.episodes, GeneratorOutcome(s, gen), FALSE), p, gen)

generate_episodes(p, batch_size, gen) ==
    LET s == RunEpisodes(StartEpisodes(p, 0, batch_size, "sqlite", FALSE), p, gen)
    IN IF s.pc = "done" THEN Ok(Commit(p, s), s.moves)
       ELSE Err(p, StatusOf(s.error), s.moves)

approve_episode(p, episode_id) ==
    IF episode_id \notin DOMAIN p.episodes THEN Err(p, 404, {})
    ELSE LET r == Episode_approve(p.episodes[episode_id].state)
         IN IF r.error # NoError THEN Err(p, StatusOf(r.error), {})
            ELSE Ok([p EXCEPT !.episodes[episode_id].state = r.state],
                    Move("Episode", p.episodes[episode_id].state, r))

unapprove_episode(p, episode_id) ==
    IF episode_id \notin DOMAIN p.episodes THEN Err(p, 404, {})
    ELSE LET r == Episode_unapprove(p.episodes[episode_id].state)
         IN IF r.error # NoError THEN Err(p, StatusOf(r.error), {})
            ELSE Ok([p EXCEPT !.episodes[episode_id].state = r.state],
                    Move("Episode", p.episodes[episode_id].state, r))

\* ---- media rows --------------------------------------------------------
\* A CharacterRef or LocationRef is found by its owner's position, a
\* Thumbnail by its position, a GeneratedImage or GeneratedVideo by the
\* positions <<episode, scene, prompt>> of the prompt that owns it.
PromptField(kind) == IF kind = "GeneratedImage" THEN "image_prompts" ELSE "video_prompts"
MediaField(kind) == IF kind = "GeneratedImage" THEN "generated_image" ELSE "generated_video"

HasPrompt(p, field, id) ==
    /\ id[1] \in DOMAIN p.episodes
    /\ id[2] \in DOMAIN p.episodes[id[1]].scenes
    /\ id[3] \in DOMAIN p.episodes[id[1]].scenes[id[2]][field]

\* db.query(model_class).filter(model_class.id == entity_id).first()
GetMedia(p, kind, id) ==
    CASE kind = "CharacterRef" ->
            IF id \in DOMAIN p.characters THEN p.characters[id].reference ELSE NoRow
      [] kind = "LocationRef" ->
            IF id \in DOMAIN p.locations THEN p.locations[id].reference ELSE NoRow
      [] kind = "Thumbnail" ->
            IF id \in DOMAIN p.thumbnails THEN p.thumbnails[id] ELSE NoRow
      [] OTHER ->
            IF HasPrompt(p, PromptField(kind), id)
            THEN p.episodes[id[1]].scenes[id[2]][PromptField(kind)][id[3]][MediaField(kind)]
            ELSE NoRow

\* The row with the state and path a method left on it.
SetMedia(p, kind, id, r) ==
    CASE kind = "CharacterRef" ->
            [p EXCEPT !.characters[id].reference.state = r.state,
                      !.characters[id].reference.path = r.path]
      [] kind = "LocationRef" ->
            [p EXCEPT !.locations[id].reference.state = r.state,
                      !.locations[id].reference.path = r.path]
      [] kind = "Thumbnail" ->
            [p EXCEPT !.thumbnails[id].state = r.state, !.thumbnails[id].path = r.path]
      [] OTHER ->
            [p EXCEPT
               !.episodes[id[1]].scenes[id[2]][PromptField(kind)][id[3]][MediaField(kind)].state = r.state,
               !.episodes[id[1]].scenes[id[2]][PromptField(kind)][id[3]][MediaField(kind)].path = r.path]

\* approve_character_ref and approve_location_ref look at the state
\* themselves (400); the other approve handlers leave it to transition_to.
ApproveMedia(p, kind, id, checked) ==
    LET m == GetMedia(p, kind, id)
    IN IF m = NoRow THEN Err(p, 404, {})
       ELSE IF checked /\ m.state # "generated" THEN Err(p, 400, {})
       ELSE LET r == Media_approve(kind, m)
            IN IF r.error # NoError THEN Err(p, StatusOf(r.error), {})
               ELSE Ok(SetMedia(p, kind, id, r), Move(kind, m.state, r))

RejectMedia(p, kind, id) ==
    LET m == GetMedia(p, kind, id)
    IN IF m = NoRow THEN Err(p, 404, {})
       ELSE LET r == Media_reject(kind, m)
            IN IF r.error # NoError THEN Err(p, StatusOf(r.error), {})
               ELSE Ok(SetMedia(p, kind, id, r), Move(kind, m.state, r))

\* RegenerateMedia with the state assigned instead of reset_for_regen().
RegenerateMedia_FromAnyState(p, kind, id, gen) ==
    LET m == GetMedia(p, kind, id)
        reset == [state |-> "pending", path |-> None, error |-> NoError]
        marked == Media_mark_generating(kind, reset)
        done == Media_mark_generated(kind, marked, gen.path)
        before == Move(kind, m.state, reset) \cup Move(kind, reset.state, marked)
    IN IF m = NoRow THEN Err(p, 404, {})
       ELSE IF gen.kind = "raised" THEN Err(SetMedia(p, kind, id, marked), 500, before)
       ELSE IF done.error # NoError THEN Err(SetMedia(p, kind, id, marked), 500, before)
       ELSE Ok(SetMedia(p, kind, id, done), before \cup Move(kind, marked.state, done))

\* reset_for_regen(), mark_generating(), flush; then the Generator call:
\* mark_generated(path) and commit, or commit as it is and answer 500.
RegenerateMedia(p, kind, id, gen) ==
    LET m == GetMedia(p, kind, id)
        reset == Media_reset_for_regen(kind, m)
        marked == Media_mark_generating(kind, reset)
        done == Media_mark_generated(kind, marked, gen.path)
        before == Move(kind, m.state, reset) \cup Move(kind, reset.state, marked)
    IN IF m = NoRow THEN Err(p, 404, {})
       ELSE IF reset.error # NoError THEN Err(p, StatusOf(reset.error), {})
       ELSE IF marked.error # NoError
            THEN Err(p, StatusOf(marked.error), Move(kind, m.state, reset))
       ELSE IF gen.kind = "raised" THEN Err(SetMedia(p, kind, id, marked), 500, before)
       ELSE IF done.error # NoError THEN Err(SetMedia(p, kind, id, marked), 500, before)
       ELSE Ok(SetMedia(p, kind, id, done), before \cup Move(kind, marked.state, done))

approve_character_ref(p, ref_id) == ApproveMedia(p, "CharacterRef", ref_id, TRUE)
reject_character_ref(p, ref_id) == RejectMedia(p, "CharacterRef", ref_id)
regenerate_character_ref(p, ref_id, gen) == RegenerateMedia(p, "CharacterRef", ref_id, gen)

approve_location_ref(p, ref_id) == ApproveMedia(p, "LocationRef", ref_id, TRUE)
reject_location_ref(p, ref_id) == RejectMedia(p, "LocationRef", ref_id)
regenerate_location_ref(p, ref_id, gen) == RegenerateMedia(p, "LocationRef", ref_id, gen)

approve_thumbnail(p, thumb_id) == ApproveMedia(p, "Thumbnail", thumb_id, FALSE)
reject_thumbnail(p, thumb_id) == RejectMedia(p, "Thumbnail", thumb_id)
regenerate_thumbnail(p, thumb_id, gen) == RegenerateMedia(p, "Thumbnail", thumb_id, gen)

approve_generated_image(p, image_id) == ApproveMedia(p, "GeneratedImage", image_id, FALSE)
reject_generated_image(p, image_id) == RejectMedia(p, "GeneratedImage", image_id)
regenerate_generated_image(p, image_id, gen) == RegenerateMedia(p, "GeneratedImage", image_id, gen)

approve_generated_video(p, video_id) == ApproveMedia(p, "GeneratedVideo", video_id, FALSE)
reject_generated_video(p, video_id) == RejectMedia(p, "GeneratedVideo", video_id)
regenerate_generated_video(p, video_id, gen) == RegenerateMedia(p, "GeneratedVideo", video_id, gen)

\* approve_image_prompt, approve_video_prompt
ApprovePrompt(p, kind, id) ==
    LET field == IF kind = "ImagePrompt" THEN "image_prompts" ELSE "video_prompts"
    IN IF ~HasPrompt(p, field, id) THEN Err(p, 404, {})
       ELSE LET prompt == p.episodes[id[1]].scenes[id[2]][field][id[3]]
                r == Prompt_approve(kind, prompt.state)
            IN IF r.error # NoError THEN Err(p, StatusOf(r.error), {})
               ELSE Ok([p EXCEPT !.episodes[id[1]].scenes[id[2]][field][id[3]].state = r.state],
                       Move(kind, prompt.state, r))

approve_image_prompt(p, prompt_id) == ApprovePrompt(p, "ImagePrompt", prompt_id)
approve_video_prompt(p, prompt_id) == ApprovePrompt(p, "VideoPrompt", prompt_id)

\* ---- recovery.py -------------------------------------------------------
ENTITY_MAP ==
    {"episodes", "character-refs", "location-refs", "generated-images", "thumbnails",
     "generated-videos"}

EntityClass(entity_type) ==
    CASE entity_type = "episodes" -> "Episode"
      [] entity_type = "character-refs" -> "CharacterRef"
      [] entity_type = "location-refs" -> "LocationRef"
      [] entity_type = "generated-images" -> "GeneratedImage"
      [] entity_type = "thumbnails" -> "Thumbnail"
      [] entity_type = "generated-videos" -> "GeneratedVideo"

\* reset_stuck_entity as changed by a bug that does not look at the state.
reset_stuck_entity_NoStateTest(p, entity_type, entity_id) ==
    IF entity_type \notin ENTITY_MAP THEN Err(p, 400, {})
    ELSE LET kind == EntityClass(entity_type)
             entity == IF kind = "Episode"
                       THEN IF entity_id \in DOMAIN p.episodes THEN p.episodes[entity_id] ELSE NoRow
                       ELSE GetMedia(p, kind, entity_id)
         IN IF entity = NoRow THEN Err(p, 404, {})
            ELSE Ok(IF kind = "Episode"
                    THEN [p EXCEPT !.episodes[entity_id].state = "pending"]
                    ELSE SetMedia(p, kind, entity_id,
                                  [state |-> "pending", path |-> entity.path]),
                    IF entity.state = "pending" THEN {}
                    ELSE {<<kind, entity.state, "pending">>})

reset_stuck_entity(p, entity_type, entity_id) ==
    IF entity_type \notin ENTITY_MAP THEN Err(p, 400, {})
    ELSE LET kind == EntityClass(entity_type)
             entity == IF kind = "Episode"
                       THEN IF entity_id \in DOMAIN p.episodes THEN p.episodes[entity_id] ELSE NoRow
                       ELSE GetMedia(p, kind, entity_id)
         IN IF entity = NoRow THEN Err(p, 404, {})
            ELSE IF entity.state # "generating" THEN Err(p, 400, {})
            ELSE LET r == transition_to(kind, entity.state, "pending")
                 IN IF r.error # NoError THEN Err(p, StatusOf(r.error), {})
                    ELSE Ok(IF kind = "Episode"
                            THEN [p EXCEPT !.episodes[entity_id].state = r.state]
                            ELSE SetMedia(p, kind, entity_id,
                                          [state |-> r.state, path |-> entity.path]),
                            Move(kind, entity.state, r))

\* get_stuck_entities with `<=` where the code compares with `<`.
get_stuck_entities_AtCutoff(p, created_at, minutes, now) ==
    LET cutoff == now - minutes
        Stuck(entity_type, row, id) ==
            /\ row # NoRow
            /\ row.state = "generating"
            /\ created_at[<<entity_type, id>>] <= cutoff
        Item(entity_type, id) ==
            [entity_type |-> entity_type, entity_id |-> id, state |-> "generating",
             created_at |-> created_at[<<entity_type, id>>]]
        Under(entity_type, field, media) ==
            UNION {UNION {{Item(entity_type, <<e, s, k>>) :
                             k \in {x \in DOMAIN p.episodes[e].scenes[s][field] :
                                       Stuck(entity_type, p.episodes[e].scenes[s][field][x][media],
                                             <<e, s, x>>)}} :
                          s \in DOMAIN p.episodes[e].scenes} :
                   e \in DOMAIN p.episodes}
        stuck ==
            {Item("episodes", e) :
                e \in {x \in DOMAIN p.episodes : Stuck("episodes", p.episodes[x], x)}}
            \cup Under("generated-images", "image_prompts", "generated_image")
            \cup Under("generated-videos", "video_prompts", "generated_video")
            \cup {Item("character-refs", c) :
                     c \in {x \in DOMAIN p.characters :
                               Stuck("character-refs", p.characters[x].reference, x)}}
            \cup {Item("location-refs", l) :
                     l \in {x \in DOMAIN p.locations :
                               Stuck("location-refs", p.locations[x].reference, x)}}
            \cup {Item("thumbnails", th) :
                     th \in {x \in DOMAIN p.thumbnails : Stuck("thumbnails", p.thumbnails[x], x)}}
    IN [p |-> p, status |-> 200, moves |-> {}, stuck |-> stuck, count |-> Cardinality(stuck)]

\* GET /projects/{id}/stuck at time `now` (minutes), with the created_at
\* column of the rows given by entity type and id. The items of the list
\* are kept as a set: no row is visited twice.
get_stuck_entities(p, created_at, minutes, now) ==
    LET cutoff == now - minutes
        Stuck(entity_type, row, id) ==
            /\ row # NoRow
            /\ row.state = "generating"
            /\ created_at[<<entity_type, id>>] < cutoff
        Item(entity_type, id) ==
            [entity_type |-> entity_type, entity_id |-> id, state |-> "generating",
             created_at |-> created_at[<<entity_type, id>>]]
        Under(entity_type, field, media) ==
            UNION {UNION {{Item(entity_type, <<e, s, k>>) :
                             k \in {x \in DOMAIN p.episodes[e].scenes[s][field] :
                                       Stuck(entity_type, p.episodes[e].scenes[s][field][x][media],
                                             <<e, s, x>>)}} :
                          s \in DOMAIN p.episodes[e].scenes} :
                   e \in DOMAIN p.episodes}
        stuck ==
            {Item("episodes", e) :
                e \in {x \in DOMAIN p.episodes : Stuck("episodes", p.episodes[x], x)}}
            \cup Under("generated-images", "image_prompts", "generated_image")
            \cup Under("generated-videos", "video_prompts", "generated_video")
            \cup {Item("character-refs", c) :
                     c \in {x \in DOMAIN p.characters :
                               Stuck("character-refs", p.characters[x].reference, x)}}
            \cup {Item("location-refs", l) :
                     l \in {x \in DOMAIN p.locations :
                               Stuck("location-refs", p.locations[x].reference, x)}}
            \cup {Item("thumbnails", th) :
                     th \in {x \in DOMAIN p.thumbnails : Stuck("thumbnails", p.thumbnails[x], x)}}
    IN [p |-> p, status |-> 200, moves |-> {}, stuck |-> stuck, count |-> Cardinality(stuck)]

\* ---- images.py and videos.py: the generation endpoints -----------------
\* The project with the prompts of `field` of every scene replaced by
\* New(e, s), the prompts scene s of episode e ends with.
WithPrompts(p, field, New(_, _)) ==
    [p EXCEPT !.episodes =
        [e \in DOMAIN p.episodes |->
            [p.episodes[e] EXCEPT !.scenes =
                [s \in DOMAIN p.episodes[e].scenes |->
                    [p.episodes[e].scenes[s] EXCEPT ![field] = New(e, s)]]]]]

ScenesOf(p) ==
    UNION {{<<e, s>> : s \in DOMAIN p.episodes[e].scenes} : e \in DOMAIN p.episodes}

generate_image_prompts(p, gen) ==
    LET generated_episodes == {e \in DOMAIN p.episodes : p.episodes[e].state \in {"generated", "approved"}}
        needing == {es \in ScenesOf(p) : /\ es[1] \in generated_episodes
                                         /\ p.episodes[es[1]].scenes[es[2]].image_prompts = <<>>}
        New(e, s) == IF <<e, s>> \in needing
                     THEN [k \in 1..gen.shots |-> [state |-> "generated", generated_image |-> NoRow]]
                     ELSE p.episodes[e].scenes[s].image_prompts
    IN IF generated_episodes = {} THEN Err(p, 400, {})
       ELSE IF needing # {} /\ gen.kind = "raised" THEN Err(p, 500, {})
       ELSE Ok([WithPrompts(p, "image_prompts", New)
                   EXCEPT !.current_step = IF @ < 6 THEN 6 ELSE @], {})

generate_video_prompts(p, gen) ==
    LET needing == {es \in ScenesOf(p) : p.episodes[es[1]].scenes[es[2]].video_prompts = <<>>}
        New(e, s) == IF <<e, s>> \in needing
                     THEN [k \in 1..gen.shots |-> [state |-> "generated", generated_video |-> NoRow]]
                     ELSE p.episodes[e].scenes[s].video_prompts
    IN IF needing # {} /\ gen.kind = "raised" THEN Err(p, 500, {})
       ELSE Ok([WithPrompts(p, "video_prompts", New)
                   EXCEPT !.current_step = IF @ < 11 THEN 11 ELSE @], {})

\* The owners with a reference row added where there was none.
WithNewRefs(rows) ==
    [i \in DOMAIN rows |->
        IF rows[i].reference = NoRow THEN [rows[i] EXCEPT !.reference = NewMedia("pending")]
        ELSE rows[i]]

generate_reference_prompts(p, gen) ==
    LET called == \/ \E i \in DOMAIN p.characters : p.characters[i].reference = NoRow
                  \/ \E i \in DOMAIN p.locations : p.locations[i].reference = NoRow
    IN IF called /\ gen.kind = "raised" THEN Err(p, 500, {})
       ELSE Ok([p EXCEPT !.characters = WithNewRefs(p.characters),
                         !.locations = WithNewRefs(p.locations),
                         !.current_step = IF @ < 7 THEN 7 ELSE @], {})

\* A media row created in generating and flushed, then the Generator call:
\* mark_generated(path), or the exception is logged and the row stays.
Generate(kind, m, gen) ==
    IF gen.kind = "raised" THEN [state |-> m.state, path |-> m.path, error |-> NoError]
    ELSE Media_mark_generated(kind, m, gen.path)

\* WithGenerated without the test of the prompt's state.
WithGenerated_AnyPrompt(kind, prompt, gen) ==
    IF prompt[MediaField(kind)] = NoRow
    THEN LET r == Generate(kind, NewMedia("generating"), gen)
         IN [prompt EXCEPT ![MediaField(kind)] = [state |-> r.state, path |-> r.path]]
    ELSE prompt

\* The prompt with the media row a generation endpoint gives it.
WithGenerated(kind, prompt, gen) ==
    IF prompt.state = "approved" /\ prompt[MediaField(kind)] = NoRow
    THEN LET r == Generate(kind, NewMedia("generating"), gen)
         IN [prompt EXCEPT ![MediaField(kind)] = [state |-> r.state, path |-> r.path]]
    ELSE prompt

GenerateMedia(p, kind, gen, step) ==
    LET field == PromptField(kind)
        New(e, s) == [k \in DOMAIN p.episodes[e].scenes[s][field] |->
                         WithGenerated(kind, p.episodes[e].scenes[s][field][k], gen)]
        after == WithPrompts(p, field, New)
        prompts == IF kind = "GeneratedImage" THEN ImagePromptsOf(p) ELSE VideoPromptsOf(p)
        made == \E prompt \in prompts : prompt.state = "approved" /\ prompt[MediaField(kind)] = NoRow
    IN Ok([after EXCEPT !.current_step = IF @ < step THEN step ELSE @],
          IF made THEN Move(kind, "generating", Generate(kind, NewMedia("generating"), gen)) ELSE {})

generate_images(p, gen) == GenerateMedia(p, "GeneratedImage", gen, 8)
generate_videos(p, gen) == GenerateMedia(p, "GeneratedVideo", gen, 12)

\* The owners whose pending reference went through mark_generating() and
\* the Generator call.
WithRefImages(kind, rows, gen) ==
    [i \in DOMAIN rows |->
        IF rows[i].reference # NoRow /\ rows[i].reference.state = "pending"
        THEN LET r == Generate(kind, Media_mark_generating(kind, rows[i].reference), gen)
             IN [rows[i] EXCEPT !.reference = [state |-> r.state, path |-> r.path]]
        ELSE rows[i]]

RefMoves(kind, rows, gen) ==
    UNION {LET marked == Media_mark_generating(kind, rows[i].reference)
           IN Move(kind, "pending", marked) \cup Move(kind, marked.state, Generate(kind, marked, gen)) :
              i \in {j \in DOMAIN rows : rows[j].reference # NoRow /\ rows[j].reference.state = "pending"}}

generate_reference_images(p, gen) ==
    Ok([p EXCEPT !.characters = WithRefImages("CharacterRef", p.characters, gen),
                 !.locations = WithRefImages("LocationRef", p.locations, gen)],
       RefMoves("CharacterRef", p.characters, gen) \cup RefMoves("LocationRef", p.locations, gen))

RECURSIVE ThumbnailsFrom(_, _, _, _)
\* for episode in project.episodes: the thumbnails added for the episodes
\* from position e on that have none
ThumbnailsFrom(p, thumbs, e, gen) ==
    IF e > Len(p.episodes) THEN thumbs
    ELSE IF \E t \in DOMAIN p.thumbnails : p.thumbnails[t].episode_id = p.episodes[e].id
         THEN ThumbnailsFrom(p, thumbs, e + 1, gen)
    ELSE LET r == Generate("Thumbnail", NewMedia("generating"), [gen EXCEPT !.kind = gen.image])
             new == [t \in 1..gen.thumbs |->
                       [episode_id |-> p.episodes[e].id, state |-> r.state, path |-> r.path]]
         IN ThumbnailsFrom(p, thumbs \o new, e + 1, gen)

generate_thumbnails(p, gen) ==
    LET called == \E e \in DOMAIN p.episodes :
                     \A t \in DOMAIN p.thumbnails : p.thumbnails[t].episode_id # p.episodes[e].id
        thumbnails == ThumbnailsFrom(p, p.thumbnails, 1, gen)
    IN IF called /\ gen.kind = "raised" THEN Err(p, 500, {})
       ELSE Ok([p EXCEPT !.thumbnails = thumbnails,
                         !.current_step = IF @ < 9 THEN 9 ELSE @],
               IF Len(thumbnails) > Len(p.thumbnails)
               THEN Move("Thumbnail", "generating",
                         Generate("Thumbnail", NewMedia("generating"), [gen EXCEPT !.kind = gen.image]))
               ELSE {})

(***************************************************************************)
(* SpecApi: the requests of the API made one after the other on one        *)
(* project, from its creation.                                             *)
(***************************************************************************)
MaxIdeas == 2           \* ideas of the project
MaxStructure == 1       \* characters, locations, episode summaries of each kind
MaxShots == 1           \* prompts the Generator gives a scene
MaxThumbs == 1          \* thumbnails the Generator gives an episode
MaxOps == 5             \* requests served in one behaviour

IdeaIds == 1..MaxIdeas
StructureIds == 1..MaxStructure
PromptIds == {<<e, s, k>> : e \in StructureIds, s \in 1..MaxScenes, k \in 1..MaxShots}
ThumbIds == 1..(MaxStructure * MaxThumbs)

IdeasData(n) == [i \in 1..n |-> IF i = 1 THEN [title |-> "t1", setting |-> "s1"]
                                ELSE [title |-> "t2", setting |-> "s2"]]

\* What the Generator does for the calls of one request.
GenKinds == {"raised", "returned"}
MediaGens == {[kind |-> k, path |-> path] : k \in GenKinds, path \in Paths}
PromptGens == {[kind |-> k, shots |-> n] : k \in GenKinds, n \in 0..MaxShots}
ThumbGens ==
    {[kind |-> k, image |-> i, thumbs |-> n, path |-> path] :
        k \in GenKinds, i \in GenKinds, n \in 0..MaxThumbs, path \in Paths}
EpisodeGens ==
    {[kind |-> k, content |-> c, scenes |-> n] :
        k \in {"raised", "empty", "full", "repeated"}, c \in 1..NumContents, n \in {0, MaxScenes}}
StructureGens ==
    {[kind |-> "raised"]} \cup
    {[kind |-> "returned", characters |-> c, locations |-> l, episode_arc |-> e] :
        c \in {0, MaxStructure}, l \in {0, MaxStructure}, e \in {0, MaxStructure}}

\* The project after generate_ideas, approve_idea and generate_structure.
Drafted ==
    LET ideas == generate_ideas(NewProject, [kind |-> "returned", ideas_data |-> IdeasData(MaxIdeas)]).p
        chosen == approve_idea(ideas, 1).p
    IN generate_structure(chosen, [kind |-> "returned", characters |-> MaxStructure,
                                   locations |-> MaxStructure, episode_arc |-> MaxStructure]).p

\* The drafted project after approve_all_structure and generate_episodes.
Scripted ==
    generate_episodes(approve_all_structure(Drafted).p, 5,
                      [kind |-> "full", content |-> 1, scenes |-> MaxScenes]).p

\* The scripted project after generate_image_prompts, approve_image_prompt on
\* every prompt made, and generate_images.
Illustrated ==
    LET prompted == generate_image_prompts(Scripted, [kind |-> "returned", shots |-> MaxShots]).p
        RECURSIVE ApproveFrom(_, _)
        ApproveFrom(q, ids) ==
            IF ids = {} THEN q
            ELSE LET id == CHOOSE x \in ids : TRUE
                 IN ApproveFrom(approve_image_prompt(q, id).p, ids \ {id})
    IN generate_images(ApproveFrom(prompted, PromptIds),
                       [kind |-> "returned", path |-> CHOOSE path \in Paths : TRUE]).p

\* A behaviour takes the project up at its creation or at one of these
\* later points of its life.
InitApi ==
    /\ db \in {NewProject, Drafted, Scripted, Illustrated}
    /\ reqs = NoReqs
    /\ sm = [kind |-> "none"]
    /\ resp = NoResp

\* The handler's commit or rollback, and its response.
Respond(result) ==
    /\ resp.served < MaxOps
    /\ db' = result.p
    /\ resp' = [status |-> result.status, moves |-> result.moves, served |-> resp.served + 1,
                progress |-> IF "progress" \in DOMAIN result THEN result.progress
                             ELSE NoProgress,
                advanced |-> IF "current_step" \in DOMAIN result THEN result.current_step
                             ELSE 0]
    /\ UNCHANGED <<sm, reqs>>

GenerateIdeas ==
    \/ Respond(generate_ideas(db, [kind |-> "raised"]))
    \/ \E n \in 1..MaxIdeas :
          Respond(generate_ideas(db, [kind |-> "returned", ideas_data |-> IdeasData(n)]))
AddCustomIdea ==
    /\ Len(db.ideas) < MaxIdeas
    /\ Respond(add_custom_idea(db, [title |-> "t2", setting |-> "s2"]))
ApproveIdea == \E id \in IdeaIds : Respond(approve_idea(db, id))
RejectIdea == \E id \in IdeaIds : Respond(reject_idea(db, id))
AdvanceStep == Respond(advance_step(db))
GetStepProgress == Respond(get_step_progress(db))

GenerateStructure == \E gen \in StructureGens : Respond(generate_structure(db, gen))
UpdateCharacter == \E id \in StructureIds : Respond(update_character(db, id))
UpdateLocation == \E id \in StructureIds : Respond(update_location(db, id))
UpdateEpisodeSummary == \E id \in StructureIds : Respond(update_episode_summary(db, id))
ApproveCharacter == \E id \in StructureIds : Respond(approve_character(db, id))
ApproveLocation == \E id \in StructureIds : Respond(approve_location(db, id))
ApproveEpisodeSummary == \E id \in StructureIds : Respond(approve_episode_summary(db, id))
ApproveAllStructure == Respond(approve_all_structure(db))

GenerateEpisodes ==
    \E batch_size \in BatchSizes, gen \in EpisodeGens :
        Respond(generate_episodes(db, batch_size, gen))
ApproveEpisode == \E id \in StructureIds : Respond(approve_episode(db, id))
UnapproveEpisode == \E id \in StructureIds : Respond(unapprove_episode(db, id))

GenerateImagePrompts == \E gen \in PromptGens : Respond(generate_image_prompts(db, gen))
ApproveImagePrompt == \E id \in PromptIds : Respond(approve_image_prompt(db, id))
GenerateReferencePrompts ==
    \E k \in GenKinds : Respond(generate_reference_prompts(db, [kind |-> k]))
GenerateReferenceImages == \E gen \in MediaGens : Respond(generate_reference_images(db, gen))
ApproveCharacterRef == \E id \in StructureIds : Respond(approve_character_ref(db, id))
RejectCharacterRef == \E id \in StructureIds : Respond(reject_character_ref(db, id))
RegenerateCharacterRef ==
    \E id \in StructureIds, gen \in MediaGens : Respond(regenerate_character_ref(db, id, gen))
ApproveLocationRef == \E id \in StructureIds : Respond(approve_location_ref(db, id))
RejectLocationRef == \E id \in StructureIds : Respond(reject_location_ref(db, id))
RegenerateLocationRef ==
    \E id \in StructureIds, gen \in MediaGens : Respond(regenerate_location_ref(db, id, gen))

GenerateImages == \E gen \in MediaGens : Respond(generate_images(db, gen))
ApproveGeneratedImage == \E id \in PromptIds : Respond(approve_generated_image(db, id))
RejectGeneratedImage == \E id \in PromptIds : Respond(reject_generated_image(db, id))
RegenerateGeneratedImage ==
    \E id \in PromptIds, gen \in MediaGens : Respond(regenerate_generated_image(db, id, gen))

GenerateThumbnails == \E gen \in ThumbGens : Respond(generate_thumbnails(db, gen))
ApproveThumbnail == \E id \in ThumbIds : Respond(approve_thumbnail(db, id))
RejectThumbnail == \E id \in ThumbIds : Respond(reject_thumbnail(db, id))
RegenerateThumbnail ==
    \E id \in ThumbIds, gen \in MediaGens : Respond(regenerate_thumbnail(db, id, gen))

GenerateVideoPrompts == \E gen \in PromptGens : Respond(generate_video_prompts(db, gen))
ApproveVideoPrompt == \E id \in PromptIds : Respond(approve_video_prompt(db, id))
GenerateVideos == \E gen \in MediaGens : Respond(generate_videos(db, gen))
ApproveGeneratedVideo == \E id \in PromptIds : Respond(approve_generated_video(db, id))
RejectGeneratedVideo == \E id \in PromptIds : Respond(reject_generated_video(db, id))
RegenerateGeneratedVideo ==
    \E id \in PromptIds, gen \in MediaGens : Respond(regenerate_generated_video(db, id, gen))

ResetStuckEntity ==
    \/ \E entity_type \in {"episodes", "character-refs", "location-refs"}, id \in StructureIds :
          Respond(reset_stuck_entity(db, entity_type, id))
    \/ \E entity_type \in {"generated-images", "generated-videos"}, id \in PromptIds :
          Respond(reset_stuck_entity(db, entity_type, id))
    \/ \E id \in ThumbIds : Respond(reset_stuck_entity(db, "thumbnails", id))
    \/ Respond(reset_stuck_entity(db, "ideas", 1))

NextApi ==
    \/ GenerateIdeas \/ AddCustomIdea \/ ApproveIdea \/ RejectIdea \/ AdvanceStep
    \/ GetStepProgress
    \/ GenerateStructure \/ UpdateCharacter \/ UpdateLocation \/ UpdateEpisodeSummary
    \/ ApproveCharacter \/ ApproveLocation \/ ApproveEpisodeSummary \/ ApproveAllStructure
    \/ GenerateEpisodes \/ ApproveEpisode \/ UnapproveEpisode
    \/ GenerateImagePrompts \/ ApproveImagePrompt
    \/ GenerateReferencePrompts \/ GenerateReferenceImages
    \/ ApproveCharacterRef \/ RejectCharacterRef \/ RegenerateCharacterRef
    \/ ApproveLocationRef \/ RejectLocationRef \/ RegenerateLocationRef
    \/ GenerateImages \/ ApproveGeneratedImage \/ RejectGeneratedImage \/ RegenerateGeneratedImage
    \/ GenerateThumbnails \/ ApproveThumbnail \/ RejectThumbnail \/ RegenerateThumbnail
    \/ GenerateVideoPrompts \/ ApproveVideoPrompt
    \/ GenerateVideos \/ ApproveGeneratedVideo \/ RejectGeneratedVideo \/ RegenerateGeneratedVideo
    \/ ResetStuckEntity

SpecApi == InitApi /\ [][NextApi]_vars

(***************************************************************************)
(* Properties of the API, checked under SpecApi.                           *)
(***************************************************************************)
\* C2: every assignment an API operation made to the state of an entity,
\* through transition_to or directly, is an edge of the transition table of
\* the entity's type.
C2_StateChangesFollowEdges ==
    \A move \in resp.moves : move[3] \in VALID_TRANSITIONS(move[1], move[2])

\* approve_idea approved an idea and rejected its draft sibling by the
\* direct assignment.
C2_Witness ==
    /\ resp.status = 200
    /\ resp.moves = {<<"Idea", "draft", "rejected">>, <<"Idea", "draft", "approved">>}

\* C3: whenever an operation raises current_step from s to s', s' = s + 1 and
\* can_advance_to(s') held in the project just before.
C3_StepAdvancesByOneThroughGate ==
    [][db'.current_step > db.current_step =>
          /\ db'.current_step = db.current_step + 1
          /\ can_advance_to(db, db'.current_step)]_vars

\* C4: no operation lowers current_step.
C4_StepNeverDecreases == [][db'.current_step >= db.current_step]_vars

\* approve_idea succeeded on a project that was already past step 2.
C4_Witness ==
    /\ resp.status = 200
    /\ <<"Idea", "draft", "approved">> \in resp.moves
    /\ db.current_step > 2

\* C10: can_advance_to(step) is true for every step up to current_step,
\* whatever the project's children are.
C10_PastStepsStayOpen ==
    \A step \in 0..db.current_step : can_advance_to(db, step)

\* A project at step 12 without a child, for which the gate's check of
\* step 12 is false.
C10_Witness ==
    /\ db.current_step = 12
    /\ db.ideas = <<>> /\ db.characters = <<>> /\ db.episodes = <<>>
    /\ ~step_checks(db, db.current_step)

(***************************************************************************)
(* Properties of the step gate, checked under SpecApi.                     *)
(***************************************************************************)
LastStep == 12

\* C11: can_advance_to(step) is false for every step beyond current_step + 1,
\* whatever the entities' states, also when the prerequisites of the steps
\* in between hold.
C11_NoSkipping ==
    \A step \in (db.current_step + 2)..(LastStep + 2) : ~can_advance_to(db, step)

\* At step 5 with a generated episode the prerequisites of steps 6 and 7
\* both hold, and step 7 is still closed.
C11_Witness ==
    /\ resp.served > 0
    /\ db.current_step = 5
    /\ step_checks(db, 6)
    /\ step_checks(db, 7)
    /\ ~can_advance_to(db, 7)

\* C12: at step 4, can_advance_to(5) is true exactly when every Character,
\* every Location and every EpisodeSummary of the project is approved.
C12_StructureGate ==
    db.current_step = 4 =>
       (can_advance_to(db, 5) <=>
           /\ \A c \in Range(db.characters) : c.state = "approved"
           /\ \A l \in Range(db.locations) : l.state = "approved"
           /\ \A e \in Range(db.episode_summaries) : e.state = "approved")

\* At step 4 all characters are approved, a location is not, and the gate
\* to step 5 is closed.
C12_Witness ==
    /\ db.current_step = 4
    /\ db.characters # <<>>
    /\ \A c \in Range(db.characters) : c.state = "approved"
    /\ \E l \in Range(db.locations) : l.state # "approved"
    /\ ~can_advance_to(db, 5)

\* C13: at step 7 (resp. 8), can_advance_to(8) (resp. 9) is true exactly when
\* some ImagePrompt is generated or approved, every Character has a
\* CharacterRef that is not pending and every Location has a LocationRef that
\* is not pending; a missing reference closes the gate.
C13_ReferenceGate ==
    db.current_step \in {7, 8} =>
       (can_advance_to(db, db.current_step + 1) <=>
           /\ \E ip \in ImagePromptsOf(db) : ip.state \in {"generated", "approved"}
           /\ \A c \in Range(db.characters) :
                 c.reference # NoRow /\ c.reference.state # "pending"
           /\ \A l \in Range(db.locations) :
                 l.reference # NoRow /\ l.reference.state # "pending")

\* At step 7 there is a generated image prompt, a character has no reference
\* at all, and the gate to step 8 is closed.
C13_Witness ==
    /\ db.current_step = 7
    /\ \E ip \in ImagePromptsOf(db) : ip.state \in {"generated", "approved"}
    /\ \E c \in Range(db.characters) : c.reference = NoRow
    /\ ~can_advance_to(db, 8)

C15_EpisodeGate ==
    db.current_step \in {5, 6} =>
       (can_advance_to(db, db.current_step + 1) <=>
           \E e \in Range(db.episodes) : e.state = "generated")

\* At step 5 every episode is approved, none is generated, and the gate to
\* step 6 is closed.
C15_Witness ==
    /\ db.current_step = 5
    /\ db.episodes # <<>>
    /\ \A e \in Range(db.episodes) : e.state = "approved"
    /\ ~can_advance_to(db, 6)

\* C16: evaluating the gate changes nothing: the get_step_progress query,
\* which calls can_advance_to, leaves current_step and every entity of the
\* project as they were.
C16_GateChangesNothing == [][GetStepProgress => db' = db]_vars

\* get_step_progress answered that the gate to the next step is open, and
\* the project is still at the step it reported.
C16_Witness ==
    /\ resp.progress # NoProgress
    /\ resp.progress.can_proceed
    /\ resp.progress.current_step > 1
    /\ db.current_step = resp.progress.current_step

(***************************************************************************)
(* Properties of ideas and of structure edits, checked under SpecApi.      *)
(***************************************************************************)
\* C17: approving a draft idea X leaves X approved, every sibling that was
\* in draft rejected, every other sibling as it was, and the project's title
\* and setting equal to X's.
C17_ApproveIdeaSideEffects ==
    \A x \in DOMAIN db.ideas :
        db.ideas[x].state = "draft" =>
           LET r == approve_idea(db, x)
           IN /\ r.status = 200
              /\ r.p.ideas[x].state = "approved"
              /\ r.p.title = db.ideas[x].title
              /\ r.p.setting = db.ideas[x].setting
              /\ DOMAIN r.p.ideas = DOMAIN db.ideas
              /\ \A y \in DOMAIN db.ideas \ {x} :
                    IF db.ideas[y].state = "draft"
                    THEN r.p.ideas[y] = [db.ideas[y] EXCEPT !.state = "rejected"]
                    ELSE r.p.ideas[y] = db.ideas[y]

\* approve_idea has approved an idea and rejected its draft sibling, and the
\* project carries the approved idea's title and setting.
C17_Witness ==
    /\ resp.status = 200
    /\ resp.moves = {<<"Idea", "draft", "rejected">>, <<"Idea", "draft", "approved">>}
    /\ \E x \in DOMAIN db.ideas :
          /\ db.ideas[x].state = "approved"
          /\ db.title = db.ideas[x].title
          /\ db.setting = db.ideas[x].setting
          /\ \E y \in DOMAIN db.ideas \ {x} :
                db.ideas[y].state = "rejected" /\ db.ideas[y].title # db.title

\* C18: in every reachable state a project has at most one Idea in approved
\* state.
C18_AtMostOneApproved ==
    Cardinality({i \in DOMAIN db.ideas : db.ideas[i].state = "approved"}) <= 1

\* C19: approved and rejected are terminal for an Idea: no approve or reject
\* operation, on it or on a sibling, changes its state, and each such
\* operation on it is refused with InvalidTransitionError (HTTP 409).
C19_IdeaStatesTerminal ==
    \A i \in DOMAIN db.ideas :
        db.ideas[i].state \in {"approved", "rejected"} =>
           /\ approve_idea(db, i).status = 409
           /\ reject_idea(db, i).status = 409
           /\ \A j \in DOMAIN db.ideas :
                 /\ approve_idea(db, j).p.ideas[i].state = db.ideas[i].state
                 /\ reject_idea(db, j).p.ideas[i].state = db.ideas[i].state

\* approve_idea was called on an idea already approved while a sibling was
\* in draft: the call was refused and both ideas are as they were.
C19_Witness ==
    /\ resp.status = 409
    /\ resp.moves = {<<"Idea", "draft", "rejected">>}
    /\ \E i \in DOMAIN db.ideas : db.ideas[i].state = "approved"
    /\ \E j \in DOMAIN db.ideas : db.ideas[j].state = "draft"

\* C20: for Character, Location and EpisodeSummary, an update (which calls
\* modify()) of an approved entity succeeds and leaves it approved, and an
\* update of a draft or modified entity succeeds and leaves it modified.
C20_ModifyRepeatable ==
    \A kind \in StructureKinds :
        \A id \in DOMAIN db[StructureField(kind)] :
            LET before == db[StructureField(kind)][id].state
                r == UpdateStructure(db, kind, id)
            IN /\ r.status = 200
               /\ r.p[StructureField(kind)][id].state =
                     IF before = "approved" THEN "approved" ELSE "modified"

(***************************************************************************)
(* Properties of media review, recovery and generation failures, checked   *)
(* under SpecApi.                                                          *)
(***************************************************************************)
\* The ids a request can name an entity of this class by: those of the
\* project's rows and one that no row has.
IdsOf(kind) ==
    CASE kind \in {"Episode", "CharacterRef", "LocationRef"} -> 1..(MaxStructure + 1)
      [] kind = "Thumbnail" -> 1..(MaxStructure * MaxThumbs + 1)
      [] OTHER -> PromptIds \cup {<<MaxStructure + 1, 1, 1>>}

\* The row of this class and id, NoRow if there is none.
EntityAt(p, kind, id) ==
    IF kind = "Episode"
    THEN IF id \in DOMAIN p.episodes THEN p.episodes[id] ELSE NoRow
    ELSE GetMedia(p, kind, id)

\* The approve route of each media class.
ApproveRoute(p, kind, id) ==
    CASE kind = "CharacterRef" -> approve_character_ref(p, id)
      [] kind = "LocationRef" -> approve_location_ref(p, id)
      [] kind = "Thumbnail" -> approve_thumbnail(p, id)
      [] kind = "GeneratedImage" -> approve_generated_image(p, id)
      [] kind = "GeneratedVideo" -> approve_generated_video(p, id)

\* C23: an approve request on a media entity that is not in generated state
\* ends with InvalidTransitionError reported as HTTP 409, and the entity
\* (and the rest of the project) is unchanged.
C23_ApproveOutOfOrderIs409 ==
    \A kind \in MediaKinds : \A id \in IdsOf(kind) :
        LET m == EntityAt(db, kind, id)
        IN (m # NoRow /\ m.state # "generated") =>
              /\ ApproveRoute(db, kind, id).status = 409
              /\ ApproveRoute(db, kind, id).p = db

\* C24: reset_stuck_entity moves an entity to pending exactly when it is in
\* generating; for any other state it answers an error and changes nothing;
\* for an unknown entity_type or id it answers an error and changes
\* nothing; and generating -> pending is an edge for each of the six types.
C24_ResetOnlyWhenGenerating ==
    /\ \A entity_type \in ENTITY_MAP :
          "pending" \in VALID_TRANSITIONS(EntityClass(entity_type), "generating")
    /\ reset_stuck_entity(db, "ideas", 1).status = 400
    /\ reset_stuck_entity(db, "ideas", 1).p = db
    /\ \A entity_type \in ENTITY_MAP : \A id \in IdsOf(EntityClass(entity_type)) :
          LET kind == EntityClass(entity_type)
              e == EntityAt(db, kind, id)
              r == reset_stuck_entity(db, entity_type, id)
          IN IF e = NoRow THEN r.status = 404 /\ r.p = db
             ELSE IF e.state = "generating"
                  THEN /\ r.status = 200
                       /\ EntityAt(r.p, kind, id) = [e EXCEPT !.state = "pending"]
                       /\ r.p.current_step = db.current_step
                  ELSE r.status = 400 /\ r.p = db

\* reset_stuck_entity has moved a Thumbnail that a failed generation left
\* generating back to pending.
C24_Witness ==
    /\ resp.status = 200
    /\ resp.moves = {<<"Thumbnail", "generating", "pending">>}
    /\ \E t \in Range(db.thumbnails) : t.state = "pending"

\* The media entities that are in generating, as <<class, id>>.
GeneratingRows(p) ==
    {row \in UNION {{<<kind, id>> : id \in IdsOf(kind)} : kind \in MediaKinds} :
        /\ EntityAt(p, row[1], row[2]) # NoRow
        /\ EntityAt(p, row[1], row[2]).state = "generating"}

\* What each endpoint that calls the Generator for media leaves when the
\* Generator raises.
AfterGeneratorFailure(p) ==
    {generate_images(p, [kind |-> "raised", path |-> path]).p : path \in Paths}
    \cup {generate_videos(p, [kind |-> "raised", path |-> path]).p : path \in Paths}
    \cup {generate_reference_images(p, [kind |-> "raised", path |-> path]).p : path \in Paths}
    \cup {generate_thumbnails(p, gen).p : gen \in {g \in ThumbGens : g.kind = "returned" /\ g.image = "raised"}}
    \cup {regenerate_character_ref(p, id, [kind |-> "raised", path |-> path]).p :
            id \in StructureIds, path \in Paths}
    \cup {regenerate_location_ref(p, id, [kind |-> "raised", path |-> path]).p :
            id \in StructureIds, path \in Paths}
    \cup {regenerate_thumbnail(p, id, [kind |-> "raised", path |-> path]).p :
            id \in ThumbIds, path \in Paths}
    \cup {regenerate_generated_image(p, id, [kind |-> "raised", path |-> path]).p :
            id \in PromptIds, path \in Paths}
    \cup {regenerate_generated_video(p, id, [kind |-> "raised", path |-> path]).p :
            id \in PromptIds, path \in Paths}

\* C27: when the Generator raises during a media generation or
\* regeneration endpoint, no entity that the call put in generating is in
\* generating in the persisted state once the call has returned.
C27_FailureLeavesNoMarker ==
    \A after \in AfterGeneratorFailure(db) : GeneratingRows(after) \subseteq GeneratingRows(db)

\* C30: in every project state where GET /projects/{id}/progress reports
\* can_proceed = false at a current step from 1 to 11, it reports a
\* blocking_reason that is a non-empty text.
C30_DenialHasReason ==
    LET progress == get_step_progress(db).progress
    IN (progress.current_step \in 1..(LastStep - 1) /\ ~progress.can_proceed) =>
          progress.blocking_reason \notin {None, ""}

\* The prompt at this position of the project.
PromptAt(p, kind, id) == p.episodes[id[1]].scenes[id[2]][PromptField(kind)][id[3]]

\* C31: in every request, a prompt that owns a GeneratedImage or
\* GeneratedVideo still owns it afterwards, changed only by transitions
\* the request made from its state (regeneration reuses the row), and a
\* prompt that had none gets one only if the prompt was approved.
C31_OneMediaPerPrompt ==
    [][\A kind \in {"GeneratedImage", "GeneratedVideo"} : \A id \in PromptIds :
          (HasPrompt(db, PromptField(kind), id) /\ HasPrompt(db', PromptField(kind), id)) =>
             LET owned == GetMedia(db, kind, id)
                 after == GetMedia(db', kind, id)
             IN /\ owned # NoRow => after # NoRow
                /\ (owned # NoRow /\ after.state # owned.state) =>
                      \E move \in resp'.moves : move[1] = kind /\ move[2] = owned.state
                /\ (owned = NoRow /\ after # NoRow) =>
                      PromptAt(db, kind, id).state = "approved"]_vars

\* A rejected image was regenerated: its prompt owns the row, now generated.
C31_Witness ==
    /\ resp.status = 200
    /\ <<"GeneratedImage", "rejected", "pending">> \in resp.moves
    /\ \E id \in PromptIds :
          /\ HasPrompt(db, "image_prompts", id)
          /\ GetMedia(db, "GeneratedImage", id) # NoRow
          /\ GetMedia(db, "GeneratedImage", id).state = "generated"

MaxRescue == 2          \* requests made to bring a pending entity to generated

\* The projects one generate or regenerate request with a succeeding
\* Generator makes of p.
RescueStep(p) ==
    LET gen == [kind |-> "returned", path |-> CHOOSE path \in Paths : TRUE]
        thumbs == [kind |-> "returned", image |-> "returned", thumbs |-> MaxThumbs,
                   path |-> gen.path]
    IN {generate_images(p, gen).p, generate_videos(p, gen).p, generate_thumbnails(p, thumbs).p}
       \cup {regenerate_generated_image(p, id, gen).p : id \in PromptIds}
       \cup {regenerate_generated_video(p, id, gen).p : id \in PromptIds}
       \cup {regenerate_thumbnail(p, id, gen).p : id \in ThumbIds}

RECURSIVE Rescued(_, _)
\* The projects reached from those of ps by at most n such requests.
Rescued(ps, n) ==
    IF n = 0 THEN ps ELSE Rescued(ps \cup UNION {RescueStep(p) : p \in ps}, n - 1)

\* C33: whenever a GeneratedImage, Thumbnail or GeneratedVideo is pending,
\* some sequence of generate and regenerate requests with a succeeding
\* Generator brings that entity to generated state.
C33_PendingCanBeGenerated ==
    \A kind \in {"GeneratedImage", "Thumbnail", "GeneratedVideo"} : \A id \in IdsOf(kind) :
        (GetMedia(db, kind, id) # NoRow /\ GetMedia(db, kind, id).state = "pending") =>
            \E after \in Rescued({db}, MaxRescue) :
                /\ GetMedia(after, kind, id) # NoRow
                /\ GetMedia(after, kind, id).state = "generated"

\* No request of the API, whatever the Generator does, moves a pending
\* GeneratedImage, Thumbnail or GeneratedVideo: it stays pending or is
\* deleted with its episode's scenes.
PendingStays ==
    [][\A kind \in {"GeneratedImage", "Thumbnail", "GeneratedVideo"} : \A id \in IdsOf(kind) :
          (GetMedia(db, kind, id) # NoRow /\ GetMedia(db, kind, id).state = "pending") =>
              \/ GetMedia(db', kind, id) = NoRow
              \/ GetMedia(db', kind, id).state = "pending"]_vars

\* C34: a request that ends with InvalidTransitionError (HTTP 409) leaves
\* the committed project as it was: every entity, every field and
\* current_step, whatever the request had changed in its session before.
C34_RefusedRequestChangesNothing == [][resp'.status = 409 => db' = db]_vars

\* A request was refused after it had moved other entities in its session.
C34_Witness ==
    /\ resp.status = 409
    /\ resp.moves # {}
    /\ \E i \in DOMAIN db.characters : db.characters[i].state = "draft"

\* C35: approve_all_structure succeeds on every project, whatever mix of
\* draft, modified and approved its characters, locations and episode
\* summaries are in, and leaves all of them approved with current_step at
\* least 4.
C35_ApproveAllSucceeds ==
    LET result == approve_all_structure(db)
        AllApproved(rows) == \A i \in DOMAIN rows : rows[i].state = "approved"
    IN /\ result.status = 200
       /\ AllApproved(result.p.characters)
       /\ AllApproved(result.p.locations)
       /\ AllApproved(result.p.episode_summaries)
       /\ result.p.current_step >= 4

\* C36: advance_step on a project at step s with s < 12 and
\* can_advance_to(s + 1) answers 200 and changes current_step to s + 1 and
\* nothing else; at s = 12 or with the gate closed it answers 400 and
\* changes nothing.
C36_AdvanceStepExact ==
    [][AdvanceStep =>
          IF db.current_step < LastStep /\ can_advance_to(db, db.current_step + 1)
          THEN /\ resp'.status = 200
               /\ db' = [db EXCEPT !.current_step = db.current_step + 1]
          ELSE /\ resp'.status = 400
               /\ db' = db]_vars

\* advance_step moved the project to the step its response names.
C36_Witness ==
    /\ resp.status = 200
    /\ resp.advanced > 1
    /\ db.current_step = resp.advanced

\* The regenerate route of each media class.
RegenerateRoute(p, kind, id, gen) ==
    CASE kind = "CharacterRef" -> regenerate_character_ref(p, id, gen)
      [] kind = "LocationRef" -> regenerate_location_ref(p, id, gen)
      [] kind = "Thumbnail" -> regenerate_thumbnail(p, id, gen)
      [] kind = "GeneratedImage" -> regenerate_generated_image(p, id, gen)
      [] kind = "GeneratedVideo" -> regenerate_generated_video(p, id, gen)

\* C39: a regenerate request on a media entity that is rejected or
\* generating moves it to pending and on to generating with the path
\* cleared, and then ends with the Generator's result (generated with the
\* new path, or left generating without a path); on an entity that is
\* pending, generated or approved it ends with InvalidTransitionError
\* whatever the Generator would do, with no transition made and the
\* project unchanged.
C39_RegenerateOnlyFromRejected ==
    \A kind \in MediaKinds : \A id \in IdsOf(kind) : \A gen \in MediaGens :
        LET m == GetMedia(db, kind, id)
            result == RegenerateRoute(db, kind, id, gen)
            after == GetMedia(result.p, kind, id)
        IN m # NoRow =>
              IF m.state \in {"rejected", "generating"}
              THEN /\ {<<kind, m.state, "pending">>, <<kind, "pending", "generating">>}
                        \subseteq result.moves
                   /\ IF gen.kind = "returned"
                      THEN result.status = 200 /\ after.state = "generated"
                           /\ after.path = gen.path
                      ELSE result.status = 500 /\ after.state = "generating"
                           /\ after.path = None
              ELSE /\ result.status = 409
                   /\ result.moves = {}
                   /\ result.p = db

\* A regenerate request on a rejected image whose Generator call failed:
\* the image is generating and has no path.
C39_Witness ==
    /\ resp.status = 500
    /\ <<"GeneratedImage", "rejected", "pending">> \in resp.moves
    /\ \E id \in PromptIds :
          /\ HasPrompt(db, "image_prompts", id)
          /\ GetMedia(db, "GeneratedImage", id) = NewMedia("generating")

\* C40: current_step of the project is a whole number from 1 to 12 after
\* every sequence of requests made on it since create_project.
C40_StepInRange == db.current_step \in 1..LastStep

\* The project is at step 12 and a later request was answered 400.
C40_Witness ==
    /\ db.current_step = LastStep
    /\ resp.served > 1
    /\ resp.status = 400

(***************************************************************************)
(* SpecSM: one entity of any class in any state of its enum, driven by     *)
(* transition_to with every target of the enum.                            *)
(***************************************************************************)
InitSM ==
    /\ \E kind \in EntityKinds : \E state \in StatesOf(kind) :
         \E path \in (IF kind \in MediaKinds THEN Paths \cup {None} ELSE {None}) :
           sm = [kind |-> kind, state |-> state, path |-> path,
                 target |-> state, error |-> NoError]
    /\ db = IdleDb
    /\ reqs = NoReqs
    /\ resp = NoResp

\* entity.transition_to(new_state) on the entity under test
SmTransitionTo(new_state) ==
    /\ new_state \in StatesOf(sm.kind)
    /\ LET r == transition_to(sm.kind, sm.state, new_state)
       IN sm' = [sm EXCEPT !.state = r.state, !.target = new_state, !.error = r.error]
    /\ UNCHANGED <<db, reqs, resp>>

NextSM == \E new_state \in IdeaState \cup StructureState \cup MediaState : SmTransitionTo(new_state)

SpecSM == InitSM /\ [][NextSM]_vars

\* C1: for every entity class and every (current, target) of its enum,
\* transition_to(target) sets state to target iff target is in
\* VALID_TRANSITIONS[current]; otherwise it raises InvalidTransitionError
\* carrying (class name, current, target) and the state stays current.
C1_TransitionIffValid ==
    [][ /\ sm'.kind = sm.kind
        /\ IF sm'.target \in VALID_TRANSITIONS(sm.kind, sm.state)
           THEN sm'.state = sm'.target /\ sm'.error = NoError
           ELSE /\ sm'.state = sm.state
                /\ sm'.error = InvalidTransitionError(sm.kind, sm.state, sm'.target) ]_vars

\* A CharacterRef that was approved refused the move back to pending.
C1_Witness ==
    /\ sm.kind = "CharacterRef"
    /\ sm.state = "approved"
    /\ sm.error = InvalidTransitionError("CharacterRef", "approved", "pending")

(***************************************************************************)
(* SpecMedia: one media entity as its constructor leaves it, driven by its *)
(* lifecycle methods in any order.                                         *)
(***************************************************************************)
MediaPaths == Paths \cup {"/outputs/b.png"}

\* CharacterRef(...) and LocationRef(...) start pending by the column
\* default; GeneratedImage, Thumbnail and GeneratedVideo are constructed
\* with state=GENERATING by the generation endpoints. No path is set.
InitMedia ==
    /\ \E kind \in MediaKinds : \E state \in {"pending", "generating"} :
          sm = [kind |-> kind, state |-> state, path |-> None,
                call |-> "new", arg |-> None, error |-> NoError,
                before |-> [state |-> state, path |-> None]]
    /\ db = IdleDb
    /\ reqs = NoReqs
    /\ resp = NoResp

\* The entity after a method call that left r, with what it was before.
Called(call, arg, r) ==
    /\ sm' = [kind |-> sm.kind, state |-> r.state, path |-> r.path,
              call |-> call, arg |-> arg, error |-> r.error,
              before |-> [state |-> sm.state, path |-> sm.path]]
    /\ UNCHANGED <<db, reqs, resp>>

MediaMarkGenerating == Called("mark_generating", None, Media_mark_generating(sm.kind, sm))
MediaMarkGenerated ==
    \E path \in MediaPaths : Called("mark_generated", path, Media_mark_generated(sm.kind, sm, path))
MediaApprove == Called("approve", None, Media_approve(sm.kind, sm))
MediaReject == Called("reject", None, Media_reject(sm.kind, sm))
MediaResetForRegen == Called("reset_for_regen", None, Media_reset_for_regen(sm.kind, sm))

\* reset_stuck_entity on the entity: transition_to(pending) when it is
\* generating, HTTPException(400) otherwise; the path is not touched.
MediaRecoveryReset ==
    Called("reset_stuck_entity", None,
           IF sm.state # "generating"
           THEN [state |-> sm.state, path |-> sm.path, error |-> HTTPException(400)]
           ELSE LET t == transition_to(sm.kind, sm.state, "pending")
                IN [state |-> t.state, path |-> sm.path, error |-> t.error])

NextMedia ==
    \/ MediaMarkGenerating \/ MediaMarkGenerated \/ MediaApprove \/ MediaReject
    \/ MediaResetForRegen \/ MediaRecoveryReset

SpecMedia == InitMedia /\ [][NextMedia]_vars

\* C21: mark_generated(path) on a media entity either ends in generated
\* with the path field equal to path, or raises InvalidTransitionError with
\* both the state and the path field as they were.
C21_MarkGeneratedAtomic ==
    sm.call = "mark_generated" =>
       \/ /\ sm.error = NoError
          /\ sm.state = "generated"
          /\ sm.path = sm.arg
       \/ /\ sm.error.type = "InvalidTransitionError"
          /\ sm.state = sm.before.state
          /\ sm.path = sm.before.path

\* C22: reset_for_regen() on a rejected media entity with a path leaves it
\* pending with the path field None; when reset_for_regen() raises
\* InvalidTransitionError the state and the path are as they were.
C22_ResetClearsPath ==
    sm.call = "reset_for_regen" =>
       /\ sm.before.state = "rejected" =>
             sm.error = NoError /\ sm.state = "pending" /\ sm.path = None
       /\ sm.error # NoError =>
             /\ sm.error.type = "InvalidTransitionError"
             /\ sm.state = sm.before.state
             /\ sm.path = sm.before.path

\* A rejected GeneratedVideo with a video_path was reset: it is pending and
\* has no path.
C22_Witness ==
    /\ sm.kind = "GeneratedVideo"
    /\ sm.call = "reset_for_regen"
    /\ sm.before.state = "rejected"
    /\ sm.before.path \in MediaPaths
    /\ sm.state = "pending"
    /\ sm.path = None

\* C32: a media entity in pending state has no path, whatever lifecycle
\* calls and recovery resets were made on it and however they ended.
C32_PendingHasNoPath == sm.state = "pending" => sm.path = None

(***************************************************************************)
(* SpecRecovery: a project whose prompts are approved, its media           *)
(* generated, rejected, regenerated and reset while the clock runs, with   *)
(* the created_at column of every row; GET /projects/{id}/stuck is asked   *)
(* at any time.                                                            *)
(***************************************************************************)
TickMinutes == 5        \* minutes between two requests
MaxClock == 4           \* ticks of the clock in one behaviour
MaxRecoveryOps == 3     \* requests served in one behaviour

\* minutes: Query(default=10, ge=1)
Thresholds == {TickMinutes, 2 * TickMinutes}

\* The scripted project after generate_image_prompts, generate_video_prompts,
\* the approval of every prompt, and generate_reference_prompts.
Prompted ==
    LET RECURSIVE ApproveFrom(_, _, _)
        ApproveFrom(q, kind, ids) ==
            IF ids = {} THEN q
            ELSE LET id == CHOOSE x \in ids : TRUE
                 IN ApproveFrom(ApprovePrompt(q, kind, id).p, kind, ids \ {id})
        images == generate_image_prompts(Scripted, [kind |-> "returned", shots |-> MaxShots]).p
        videos == generate_video_prompts(ApproveFrom(images, "ImagePrompt", PromptIds),
                                         [kind |-> "returned", shots |-> MaxShots]).p
    IN generate_reference_prompts(ApproveFrom(videos, "VideoPrompt", PromptIds),
                                  [kind |-> "returned"]).p

\* The rows of the six classes the project holds, by entity type and id.
RowsOf(p) ==
    {key \in UNION {{<<entity_type, id>> : id \in IdsOf(EntityClass(entity_type))} :
                       entity_type \in ENTITY_MAP} :
        EntityAt(p, EntityClass(key[1]), key[2]) # NoRow}

GeneratingOf(p) ==
    {key \in RowsOf(p) : EntityAt(p, EntityClass(key[1]), key[2]).state = "generating"}

\* created_at = Column(DateTime, default=datetime.utcnow): a row gets the
\* time of its insert and keeps it. `entered` is not a column: it keeps,
\* for the rows in generating, the time they were moved there.
Stamped(clock, p) ==
    [kind |-> "clock", now |-> clock.now,
     created_at |-> [key \in RowsOf(p) |->
                        IF key \in DOMAIN clock.created_at THEN clock.created_at[key]
                        ELSE clock.now],
     entered |-> [key \in GeneratingOf(p) |->
                     IF key \in DOMAIN clock.entered THEN clock.entered[key] ELSE clock.now]]

NoStuck == [absent |-> TRUE]

InitRecovery ==
    /\ db = Prompted
    /\ sm = Stamped([now |-> 0, created_at |-> <<>>, entered |-> <<>>], Prompted)
    /\ reqs = NoReqs
    /\ resp = [status |-> 0, moves |-> {}, served |-> 0, progress |-> NoProgress,
               stuck |-> NoStuck]

\* time passes between two requests
Tick ==
    /\ sm.now < MaxClock * TickMinutes
    /\ sm' = [sm EXCEPT !.now = @ + TickMinutes]
    /\ UNCHANGED <<db, reqs, resp>>

\* The handler's commit at the present time, and its response.
Served(result) ==
    /\ resp.served < MaxRecoveryOps
    /\ db' = result.p
    /\ sm' = Stamped(sm, result.p)
    /\ resp' = [status |-> result.status, moves |-> result.moves, served |-> resp.served + 1,
                progress |-> NoProgress,
                stuck |-> IF "stuck" \in DOMAIN result
                          THEN [minutes |-> result.minutes, items |-> result.stuck,
                                count |-> result.count]
                          ELSE NoStuck]
    /\ UNCHANGED reqs

RecGenerateImages == \E gen \in MediaGens : Served(generate_images(db, gen))
RecGenerateVideos == \E gen \in MediaGens : Served(generate_videos(db, gen))
RecGenerateReferenceImages == \E gen \in MediaGens : Served(generate_reference_images(db, gen))
RecGenerateThumbnails == \E gen \in ThumbGens : Served(generate_thumbnails(db, gen))
RecRejectImage == \E id \in PromptIds : Served(reject_generated_image(db, id))
RecRegenerateImage ==
    \E id \in PromptIds, gen \in MediaGens : Served(regenerate_generated_image(db, id, gen))
RecResetStuck ==
    \E key \in RowsOf(db) : Served(reset_stuck_entity(db, key[1], key[2]))
RecGetStuck ==
    \E minutes \in Thresholds :
        Served([get_stuck_entities(db, sm.created_at, minutes, sm.now)
                   EXCEPT !.moves = {}] @@ [minutes |-> minutes])

NextRecovery ==
    \/ Tick
    \/ RecGenerateImages
    \/ RecGenerateVideos
    \/ RecGenerateReferenceImages
    \/ RecGenerateThumbnails
    \/ RecRejectImage
    \/ RecRegenerateImage
    \/ RecResetStuck
    \/ RecGetStuck

SpecRecovery == InitRecovery /\ [][NextRecovery]_vars

C26_StuckOnlyAfterThreshold ==
    \A minutes \in Thresholds :
        \A item \in get_stuck_entities(db, sm.created_at, minutes, sm.now).stuck :
            sm.now - sm.entered[<<item.entity_type, item.entity_id>>] > minutes

====
